---- MODULE Spec2Model ----
(***************************************************************************)
(* A model of the field-extraction engine of lin-hoshizora/ocr2:           *)
(*   info_extractor/match.py        matchers and the line scorer           *)
(*   info_extractor/extract.py      get_date and the number extractors     *)
(*   info_extractor/finders/date.py DatesFinder (the date disambiguator)   *)
(*   info_extractor/finders/*.py    the wide, simple and kigo/num finders  *)
(*   info_extractor/*analyzer*.py   the analyzers' fallback corrections    *)
(*                                                                         *)
(* A line of OCR text is a sequence of tokens: a keyword the matchers look *)
(* for, a date literal that get_date extracts, a digit or a punctuation    *)
(* mark.  A Page is a sequence of lines.                                   *)
(***************************************************************************)
EXTENDS Integers, Sequences, FiniteSets, TLC

\* ------------------------------------------------------------------ bounds
\* longest Page drawn as input
MaxLines == 2

\* ------------------------------------------------------------------ tokens
\* A token is a string: a keyword, or the name of a date literal.
Kw(w) == w

\* keys of ERA_OFFSET / DATE in the order get_date walks them
EraOrder == <<"r", "h", "s", "t", "m", "w">>

\* the date literals 令和元年1月2日, 令和2年1月2日, 平成30年4月1日
D1 == "D1"
D2 == "D2"
D3 == "D3"
DateToks == {D1, D2, D3}
\* the era whose DATE pattern finds the literal
EraOf(tok) == IF tok = D3 THEN "h" ELSE "r"
\* Date(year, month, date, era).western_str() of the literal, as a number
WesternStr(tok) ==
  CASE tok = D1 -> 20190102
    [] tok = D2 -> 20200102
    [] tok = D3 -> 20180401

Has(text, w) == \E k \in 1..Len(text) : text[k] = w
IndexOf(text, w) == CHOOSE k \in 1..Len(text) :
                      /\ text[k] = w
                      /\ \A j \in 1..(k - 1) : text[j] # w
\* text[:k-1] and text[k:] and text[k+1:] of a token sequence (1-based k)
Before(text, k) == SubSeq(text, 1, k - 1)
From(text, k) == SubSeq(text, k, Len(text))
After(text, k) == SubSeq(text, k + 1, Len(text))

RECURSIVE Concat(_)
Concat(ss) == IF ss = <<>> THEN <<>> ELSE Head(ss) \o Concat(Tail(ss))

\* get_date: the canonical values of the dates of text, era by era
get_date(text) ==
  Concat([e \in 1..Len(EraOrder) |->
            LET ds == SelectSeq(text, LAMBDA t : t \in DateToks /\ EraOf(t) = EraOrder[e])
            IN  [k \in 1..Len(ds) |-> WesternStr(ds[k])]])

\* ---------------------------------------------------------------- matchers
MatchResult(r, t) == [hit |-> r, text |-> t]

birthday_match(text) ==
  IF Has(text, "birthday") THEN MatchResult(1, text) ELSE MatchResult(0, text)

valid_from_match(text) ==
  IF Has(text, "made") /\ Len(get_date(text)) = 1 THEN MatchResult(0, text)
  ELSE IF Has(text, "ji") THEN MatchResult(2, After(text, IndexOf(text, "ji")))
  ELSE IF Has(text, "kara") THEN MatchResult(2, Before(text, IndexOf(text, "kara")))
  ELSE IF Has(text, "valid_from") THEN MatchResult(1, From(text, IndexOf(text, "valid_from")))
  ELSE MatchResult(0, text)

valid_until_match(text) ==
  IF Has(text, "shi") THEN MatchResult(2, After(text, IndexOf(text, "shi")))
  ELSE IF Has(text, "made") THEN MatchResult(2, Before(text, IndexOf(text, "made")))
  ELSE IF Has(text, "valid_until") THEN MatchResult(1, From(text, IndexOf(text, "valid_until")))
  ELSE MatchResult(0, text)

\* kofu_match returning 2 for a match with a date on its right
kofu_match_two(text) ==
  IF ~Has(text, "kofu") THEN MatchResult(0, text)
  ELSE LET k == IndexOf(text, "kofu") IN
       IF get_date(From(text, k)) # <<>> THEN MatchResult(2, From(text, k))
       ELSE IF get_date(Before(text, k)) # <<>> THEN MatchResult(1, Before(text, k))
       ELSE MatchResult(1, text)

kofu_match(text) ==
  IF ~Has(text, "kofu") THEN MatchResult(0, text)
  ELSE LET k == IndexOf(text, "kofu") IN
       IF get_date(From(text, k)) # <<>> THEN MatchResult(1, From(text, k))
       ELSE IF get_date(Before(text, k)) # <<>> THEN MatchResult(1, Before(text, k))
       ELSE MatchResult(1, text)

RECURSIVE SumSeq(_)
SumSeq(s) == IF s = <<>> THEN 0 ELSE Head(s) + SumSeq(Tail(s))
Min2(a, b) == IF a < b THEN a ELSE b

\* ------------------------------------------------------------- Date values
\* A Date object: its canonical string (western_str, as a number) and the
\* extractor call that built it.  Date defines no __eq__, so two Date objects
\* are equal only if they are the same object.
Null == [v |-> 0, src |-> <<"", 0, 0>>]
MkDates(tag, idx, vs) == [k \in 1..Len(vs) |-> [v |-> vs[k], src |-> <<tag, idx, k>>]]
Str(d) == d.v
StrList(ds) == [k \in 1..Len(ds) |-> Str(ds[k])]
InList(d, ds) == \E k \in 1..Len(ds) : ds[k] = d

\* ------------------------------------------------- identifiers and numbers
\* Besides keywords and date literals a line holds digits and the mark ・,
\* one token per character.  A str value is the sequence of its tokens.
\* Keywords of the analyzers' matchers:
\*   hokenja 保険者番号   kohi 公費負担者番号   jukyu 受給者番号
\*   kigo 記号   bango 番号   ban 番   skkget 資格取得年月日
\*   kokuho 国民健康保険   nyuin 入院   D0 令和年1月2日
Digits == {"0", "1", "2", "3", "4", "5", "6", "7", "8", "9"}
Puncts == {"nakaguro"}
\* tokens whose text ends in 番号
BangoToks == {"bango", "hokenja", "jukyu", "kohi"}
\* tokens of one character that is no digit
OneChar == Puncts \cup {"ban", "ji", "shi"}

\* len() of a token's text; 5 stands for five or more
TokLen(tok) ==
  CASE tok \in Digits \cup OneChar -> 1
    [] tok \in {"kigo", "bango", "kara", "made", "nyuin"} -> 2
    [] tok \in {"birthday", "valid_until", "valid_from"} -> 4
    [] OTHER -> 5
CharLen(text) == SumSeq([k \in 1..Len(text) |-> TokLen(text[k])])

\* the value of an analyzer field: None, a str or a Date
VNone == [kind |-> "none", date |-> Null, str |-> <<>>]
VStr(s) == [kind |-> "str", date |-> Null, str |-> s]
VDate(d) == IF d = Null THEN VNone ELSE [kind |-> "date", date |-> d, str |-> <<>>]

MinOf(S) == CHOOSE m \in S : \A k \in S : m <= k
MaxIn(S) == CHOOSE m \in S : \A k \in S : k <= m

\* str.isdigit()
isdigit(text) == text # <<>> /\ \A k \in 1..Len(text) : text[k] \in Digits

\* the longest run of tokens of S that starts at index k
TakeWhile(text, k, S) ==
  LET last == CHOOSE m \in (k - 1)..Len(text) :
                /\ \A j \in k..m : text[j] \in S
                /\ (m = Len(text) \/ text[m + 1] \notin S)
  IN  SubSeq(text, k, last)

\* str.strip(c)
Strip(s, c) ==
  LET keep == {k \in 1..Len(s) : s[k] # c}
  IN  IF keep = {} THEN <<>> ELSE SubSeq(s, MinOf(keep), MaxIn(keep))

\* ---------------------------------------------------------- extract.py
\* INSURER_NUM.findall(text)[0]: the first 6 to 8 digits in a row; <<>> if none
InsurerNum(text) ==
  LET at == {k \in 1..Len(text) :
               text[k] \in Digits /\ Len(TakeWhile(text, k, Digits)) >= 6}
      digits == TakeWhile(text, MinOf(at), Digits)
  IN  IF at = {} THEN <<>> ELSE SubSeq(digits, 1, Min2(8, Len(digits)))

\* get_insurer_num.  A text shorter than 3 has no 6 digits, so the length
\* test changes nothing; no token spells 電話 or a phone number.
get_insurer_num(text) ==
  LET cut == IF Has(text, "jukyu") THEN Before(text, IndexOf(text, "jukyu")) ELSE text
      new_text == SelectSeq(cut, LAMBDA t : t \notin Puncts)
  IN  IF InsurerNum(cut) # <<>> THEN VStr(InsurerNum(cut))
      ELSE IF InsurerNum(new_text) # <<>> THEN VStr(InsurerNum(new_text))
      ELSE VNone

\* get_pure_num: PURE_NUM.search(text), the first run of digits
get_pure_num(text) ==
  LET at == {k \in 1..Len(text) : text[k] \in Digits}
  IN  IF at = {} THEN VNone ELSE VStr(TakeWhile(text, MinOf(at), Digits))

\* get_num: NUM_SINGLE 番号([\d-]+)
get_num(text) ==
  LET at == {k \in 1..(Len(text) - 1) : text[k] \in BangoToks /\ text[k + 1] \in Digits}
  IN  IF at = {} THEN VNone ELSE VStr(TakeWhile(text, MinOf(at) + 1, Digits))

\* get_kigo: KIGO_SINGLE 記号([\da-zA-Z-]+), then 記号(.{1,4})$
get_kigo(text) ==
  LET at == {k \in 1..(Len(text) - 1) : text[k] = "kigo" /\ text[k + 1] \in Digits}
      at2 == {k \in 1..Len(text) : text[k] = "kigo" /\ CharLen(After(text, k)) \in 1..4}
  IN  IF at # {} THEN VStr(TakeWhile(text, MinOf(at) + 1, Digits))
      ELSE IF at2 # {} THEN VStr(After(text, MinOf(at2)))
      ELSE VNone

\* one of the patterns KIGO_NUM[0], KIGO_NUM[1] tried with its head (.号 or
\* 記号) at index k: group 1 runs to the first token that has 番 or 号, which
\* has to be one of bans; an optional character that is no digit; group 2
KigoNumAt(text, k, bans) ==
  LET stops == {j \in (k + 1)..Len(text) : text[j] \in BangoToks \cup {"kigo", "ban"}}
      j == MinOf(stops)
      g2 == IF j + 1 <= Len(text) /\ text[j + 1] \in Digits THEN j + 1
            ELSE IF j + 2 <= Len(text) /\ text[j + 1] \in OneChar /\ text[j + 2] \in Digits
            THEN j + 2 ELSE 0
  IN  IF stops = {} \/ j < k + 2 \/ text[j] \notin bans \/ g2 = 0
      THEN [found |-> FALSE, kigo |-> <<>>, num |-> <<>>]
      ELSE [found |-> TRUE, kigo |-> SubSeq(text, k + 1, j - 1),
            num |-> TakeWhile(text, g2, Digits \cup Puncts)]

\* get_kigo_num: extract_one(KIGO_NUM, text).  KIGO_NUM[0] needs 記号 or 番号
\* at the start of the line, KIGO_NUM[1] takes 記号 anywhere and 番 for 番号;
\* the other patterns need 記号番号, 被保険者番号, Latin letters or a line
\* that starts with digits, which no line of the catalogues has.
get_kigo_num(text) ==
  LET r0 == KigoNumAt(text, 1, {"bango"})
      r1 == KigoNumAt(text, IndexOf(text, "kigo"), {"bango", "ban"})
  IN  IF text # <<>> /\ text[1] \in {"kigo", "bango"} /\ r0.found THEN r0
      ELSE IF Has(text, "kigo") THEN r1
      ELSE [found |-> FALSE, kigo |-> <<>>, num |-> <<>>]

\* ------------------------------------------------------------ match.py
\* insurer_match.  INSURER[1] finds 保険者番号 and INSURER[2] finds 受給者番号
\* at the start of a line, INSURER[3] finds 公費負担者番号 anywhere.
insurer_match(text) ==
  LET k == IF text # <<>> /\ text[1] \in {"hokenja", "jukyu"} THEN 1
           ELSE IF Has(text, "kohi") THEN IndexOf(text, "kohi")
           ELSE 0
  IN  IF k = 0 THEN MatchResult(0, text)
      ELSE IF get_insurer_num(From(text, k)) # VNone THEN MatchResult(1, From(text, k))
      ELSE IF get_insurer_num(Before(text, k)) # VNone THEN MatchResult(1, Before(text, k))
      ELSE MatchResult(1, text)

\* kohi_num_match: KOHI_NUM[1] 受給者\D{,3}番号
kohi_num_match(text) ==
  IF Has(text, "jukyu") THEN MatchResult(1, From(text, IndexOf(text, "jukyu")))
  ELSE MatchResult(0, text)

\* skkget_match: SKKGET[0] 資格取得, SKKGET[8] 発効期日
skkget_match(text) ==
  IF Has(text, "skkget") THEN MatchResult(1, From(text, IndexOf(text, "skkget")))
  ELSE IF Has(text, "valid_from") THEN MatchResult(1, From(text, IndexOf(text, "valid_from")))
  ELSE MatchResult(0, text)

\* branch_match: BRANCH[1] 番号.+[^号\d]+\d{2}$ (no token spells 枝番)
branch_match(text) ==
  LET n == Len(text)
      at == {k \in 1..(n - 4) : text[k] \in BangoToks}
      hit == /\ n >= 5
             /\ text[n] \in Digits /\ text[n - 1] \in Digits
             /\ text[n - 2] \in OneChar
             /\ at # {}
      cut == From(text, MinOf(at))
      digits == TakeWhile(cut, 2, Digits)
  IN  IF hit THEN MatchResult(1, SubSeq(cut, 2 + Len(digits), Len(cut)))
      ELSE MatchResult(0, text)

\* match_methods of the DatesFinder, in the order its keys are walked
Tags == <<"Birthday", "YukoEdYmd", "YukoStYmd", "KofuYmd">>
TagSet == {Tags[k] : k \in 1..Len(Tags)}

match_methods(tag) ==
  CASE tag = "Birthday" -> "birthday_match"
    [] tag = "YukoEdYmd" -> "valid_until_match"
    [] tag = "YukoStYmd" -> "valid_from_match"
    [] tag = "KofuYmd" -> "kofu_match"

\* getattr(match, match_func)(text)
getattr_match(match_func, text) ==
  CASE match_func = "birthday_match" -> birthday_match(text)
    [] match_func = "valid_until_match" -> valid_until_match(text)
    [] match_func = "valid_from_match" -> valid_from_match(text)
    [] match_func = "kofu_match" -> kofu_match(text)
    [] match_func = "insurer_match" -> insurer_match(text)
    [] match_func = "kohi_num_match" -> kohi_num_match(text)
    [] match_func = "branch_match" -> branch_match(text)

\* getattr(extract, extract_method)(text), for the methods that return a str
getattr_extract(extract_method, text) ==
  CASE extract_method = "get_insurer_num" -> get_insurer_num(text)
    [] extract_method = "get_pure_num" -> get_pure_num(text)

\* ------------------------------------------------------------------ scorer
\* match_results = [match_func(line[-1]) for line in texts]
match_results_of(match_func, txts) ==
  [k \in 1..Len(txts) |-> getattr_match(match_func, txts[k])]

\* score without "scores_ext[1:] += scores[:-1]"
score_results_no_above(match_results, no_ext) ==
  LET n == Len(match_results)
      hits == [k \in 1..n |-> match_results[k].hit]
      cut_texts == [k \in 1..n |-> match_results[k].text]
      scores_ext == [k \in 1..n |-> 2 * hits[k] + (IF k < n THEN hits[k + 1] ELSE 0)]
  IN  IF no_ext THEN [scores |-> hits, texts |-> cut_texts]
      ELSE [scores |-> scores_ext, texts |-> cut_texts]

\* the rest of score, from the match results: (scores, cut_texts)
score_results(match_results, no_ext) ==
  LET n == Len(match_results)
      hits == [k \in 1..n |-> match_results[k].hit]
      cut_texts == [k \in 1..n |-> match_results[k].text]
      scores_ext == [k \in 1..n |->
                       2 * hits[k]
                       + (IF k < n THEN hits[k + 1] ELSE 0)
                       + (IF k > 1 THEN hits[k - 1] ELSE 0)]
  IN  IF no_ext THEN [scores |-> hits, texts |-> cut_texts]
      ELSE [scores |-> scores_ext, texts |-> cut_texts]

\* score(match_func, texts, no_ext): (scores, cut_texts)
score(match_func, txts, no_ext) ==
  score_results(match_results_of(match_func, txts), no_ext)

\* _score with no_ext=(tag == "Birthday")
score_tag_results_flipped(tag, match_results) ==
  LET n == Len(match_results)
      first == score_results(match_results, tag = "Birthday")
      head2 == SubSeq(first.scores, 1, IF n < 2 THEN n ELSE 2)
  IN  IF tag = "YukoEdYmd" /\ SumSeq(head2) = 1
      THEN score_results(match_results, FALSE)
      ELSE first

\* _score without the second call of score for YukoEdYmd
score_tag_results_no_exception(tag, match_results) ==
  score_results(match_results, tag # "Birthday")

\* DatesFinder._score for one tag, from the match results of the tag's
\* matcher: the second call of score matches the same lines again, and the
\* matchers are pure
score_tag_results(tag, match_results) ==
  LET n == Len(match_results)
      first == score_results(match_results, tag # "Birthday")
      head2 == SubSeq(first.scores, 1, IF n < 2 THEN n ELSE 2)
  IN  IF tag = "YukoEdYmd" /\ SumSeq(head2) = 1
      THEN score_results(match_results, FALSE)
      ELSE first

\* DatesFinder._score for one tag
score_tag(tag, txts) ==
  score_tag_results(tag, match_results_of(match_methods(tag), txts))

\* ------------------------------------------------------------ numpy helpers
MaxOf(s) == CHOOSE m \in {s[k] : k \in 1..Len(s)} : \A k \in 1..Len(s) : s[k] <= m
ArgMax(s) == CHOOSE k \in 1..Len(s) :
               /\ s[k] = MaxOf(s)
               /\ \A j \in 1..(k - 1) : s[j] # MaxOf(s)
CountMax(s) == Cardinality({k \in 1..Len(s) : s[k] = MaxOf(s)})
\* (-s).argsort(kind="mergesort"): indices by descending score, stable
ArgSortDesc(s) ==
  LET before(j, k) == s[j] > s[k] \/ (s[j] = s[k] /\ j < k)
      rank(k) == 1 + Cardinality({j \in 1..Len(s) : before(j, k)})
  IN  [p \in 1..Len(s) |-> CHOOSE k \in 1..Len(s) : rank(k) = p]
\* sorted(dates, key=str): ascending canonical string, stable
SortedByStr(ds) ==
  LET before(j, k) == Str(ds[j]) < Str(ds[k]) \/ (Str(ds[j]) = Str(ds[k]) /\ j < k)
      rank(k) == 1 + Cardinality({j \in 1..Len(ds) : before(j, k)})
  IN  [p \in 1..Len(ds) |-> ds[CHOOSE k \in 1..Len(ds) : rank(k) = p]]
\* np.max(list(self.scores.values()))
MaxScore(sc) == MaxOf(Concat([k \in 1..Len(Tags) |-> sc[Tags[k]]]))

\* self.info: a dict from tags to Date objects; None is Null
NoInfo == [t \in {} |-> Null]
Get(info_, key) == IF key \in DOMAIN info_ THEN info_[key] ELSE Null
Put(info_, key, val) ==
  [t \in DOMAIN info_ \cup {key} |-> IF t = key THEN val ELSE info_[t]]
NoLists == [t \in TagSet |-> <<>>]

\* ------------------------------------------------- DatesFinder.extract steps
\* Each step maps a record x of the finder's fields (scores, texts, info) and
\* the call's locals (page = the texts argument, dates_all, the loop
\* positions i, th, ki and the program position pc) to the record after it.

\* self._score(texts): the scores and the cut texts of every tag
scored(x, r) ==
  [x EXCEPT !.scores = [t \in TagSet |-> r[t].scores],
            !.texts = [t \in TagSet |-> r[t].texts],
            !.pc = "cands"]

\* the reset with "self.info = {}" left out
reset_score_keeping_info(x) ==
  scored(x, [t \in TagSet |-> score_tag(t, x.page)])

\* self.texts = {}; self.info = {}; self._score(texts)
reset_score(x) ==
  scored([x EXCEPT !.info = NoInfo], [t \in TagSet |-> score_tag(t, x.page)])

\* the extraction without "if score > 0 else []"
candidates_of_every_line(x) ==
  LET n(t) == Min2(Len(x.texts[t]), Len(x.scores[t]))
      all == [t \in TagSet |->
                [idx \in 1..n(t) |-> MkDates(t, idx, get_date(x.texts[t][idx]))]]
  IN  [x EXCEPT !.dates_all = all,
                !.i = 1,
                !.pc = IF Len(x.page) = 0 THEN "fix4a" ELSE "nms"]

\* dates_all[tag] = [extract_f(line) if score > 0 else [] ...]
candidates(x) ==
  LET n(t) == Min2(Len(x.texts[t]), Len(x.scores[t]))
      all == [t \in TagSet |->
                [idx \in 1..n(t) |->
                   IF x.scores[t][idx] > 0
                   THEN MkDates(t, idx, get_date(x.texts[t][idx]))
                   ELSE <<>>]]
  IN  [x EXCEPT !.dates_all = all,
                !.i = 1,
                !.pc = IF Len(x.page) = 0 THEN "fix4a" ELSE "nms"]

\* the keys that score 2 or more on line i, in key order
Claimants(x, i) == SelectSeq(Tags, LAMBDA t : x.scores[t][i] >= 2)

\* d1 is dropped when dates2 holds a date with its canonical string
NotInByStr(dates1, dates2) ==
  SelectSeq(dates1, LAMBDA d1 : \A k \in 1..Len(dates2) : Str(dates2[k]) # Str(d1))

\* the comprehension with its two lists exchanged
NotInSwapped(dates1, dates2) == SelectSeq(dates2, LAMBDA d2 : ~InList(d2, dates1))

\* [d1 for d1 in dates1 if d1 not in dates2]
NotIn(dates1, dates2) == SelectSeq(dates1, LAMBDA d1 : ~InList(d1, dates2))

\* the iteration without the test for a second key that scores 2 or more, and
\* with dates compared by canonical string
nms_first_claims(x) ==
  LET i == x.i
      suppress == Len(Claimants(x, i)) >= 1
      key_keep == Claimants(x, i)[1]
      kept == x.dates_all[key_keep]
      all == [key \in TagSet |->
                IF key = key_keep \/ x.dates_all[key] = <<>>
                THEN x.dates_all[key]
                ELSE [idx \in 1..Len(x.dates_all[key]) |->
                        IF idx <= Len(kept)
                        THEN NotInByStr(x.dates_all[key][idx], kept[idx])
                        ELSE x.dates_all[key][idx]]]
  IN  [x EXCEPT !.dates_all = IF suppress THEN all ELSE x.dates_all,
                !.i = i + 1,
                !.pc = IF i = Len(x.page) THEN "fix4a" ELSE "nms"]

\* one iteration of the "date match NMS" loop, for line x.i
nms(x) ==
  LET i == x.i
      suppress == Len(Claimants(x, i)) = 1
      key_keep == Claimants(x, i)[1]
      kept == x.dates_all[key_keep]
      all == [key \in TagSet |->
                IF key = key_keep \/ x.dates_all[key] = <<>>
                THEN x.dates_all[key]
                ELSE [idx \in 1..Len(x.dates_all[key]) |->
                        IF idx <= Len(kept)
                        THEN NotIn(x.dates_all[key][idx], kept[idx])
                        ELSE x.dates_all[key][idx]]]
  IN  [x EXCEPT !.dates_all = IF suppress THEN all ELSE x.dates_all,
                !.i = i + 1,
                !.pc = IF i = Len(x.page) THEN "fix4a" ELSE "nms"]

\* suppress YukoStYmd when YukoEdYmd and KofuYmd matched on the same line
Fix4aHits(x, idx) ==
  /\ x.scores["YukoStYmd"][idx] # 0
  /\ x.scores["KofuYmd"][idx] # 0
  /\ Len(x.dates_all["YukoEdYmd"][idx]) < 3

fix4a(x) ==
  LET n == Len(x.dates_all["YukoEdYmd"])
  IN  [x EXCEPT !.scores["YukoStYmd"] =
                   [idx \in 1..Len(@) |-> IF idx <= n /\ Fix4aHits(x, idx) THEN 0 ELSE @[idx]],
                !.dates_all["YukoStYmd"] =
                   [idx \in 1..Len(@) |-> IF idx <= n /\ Fix4aHits(x, idx) THEN <<>> ELSE @[idx]],
                !.pc = "fix4b"]

\* the pair as it stands, without the swap
Ordered_unswapped(pair) == pair

\* a, b = pair; if str(a) > str(b): a, b = b, a
Ordered(pair) == IF Str(pair[1]) > Str(pair[2]) THEN <<pair[2], pair[1]>> ELSE pair

\* "handle 2 dates in the same line"
Fix4bHits(x, idx) ==
  /\ Len(x.dates_all["YukoEdYmd"][idx]) = 2
  /\ x.scores["YukoStYmd"][idx] > 0
  /\ x.scores["KofuYmd"][idx] = 0

\* the loop overwrites: the last line that hits decides
Fix4bInfo(x) ==
  LET hits == {idx \in 1..Len(x.dates_all["YukoEdYmd"]) : Fix4bHits(x, idx)}
      last == CHOOSE idx \in hits : \A j \in hits : j <= idx
      pair == Ordered(x.dates_all["YukoEdYmd"][last])
  IN  IF hits = {} THEN x.info
      ELSE Put(Put(x.info, "YukoStYmd", pair[1]), "YukoEdYmd", pair[2])

\* the fixup, then the head of "for th in np.arange(np.max(...), 0, -1)":
\* np.max of four empty arrays raises ValueError
fix4b(x) ==
  [x EXCEPT !.info = Fix4bInfo(x),
            !.ki = 1,
            !.th = IF Len(x.page) = 0 THEN 0 ELSE MaxScore(x.scores),
            !.pc = IF Len(x.page) = 0 THEN "raised"
                   ELSE IF MaxScore(x.scores) = 0 THEN "pair6" ELSE "assign"]

\* the test of the threshold assignment for a key
Assignable(x, key) ==
  /\ Get(x.info, key) = Null
  /\ MaxOf(x.scores[key]) >= x.th
  /\ CountMax(x.scores[key]) = 1
  /\ Len(x.dates_all[key][ArgMax(x.scores[key])]) = 1

\* set(self.scores.keys()) - set(key): set(key) is the set of the key's
\* characters, so no key is taken out
OtherKeys(key) == TagSet

\* the filter comparing the Date objects instead of their strings
PopUsed_by_identity(other_dates, used) == SelectSeq(other_dates, LAMBDA d : d # used)

\* [d for d in other_dates if str(d) != str(self.info[key])]
PopUsed(other_dates, used) == SelectSeq(other_dates, LAMBDA d : Str(d) # Str(used))

\* one iteration of "for key in self.scores" at threshold x.th; the while
\* loop around it compares self.scores with its copy, which no iteration
\* changes, so each threshold gets one pass over the keys
assign(x) ==
  LET key == Tags[x.ki]
      idx_max == ArgMax(x.scores[key])
      used == x.dates_all[key][idx_max][1]
      popped == [t \in TagSet |->
                   IF t \in OtherKeys(key)
                   THEN [x.dates_all[t] EXCEPT ![idx_max] = PopUsed(@, used)]
                   ELSE x.dates_all[t]]
      last == x.ki = Len(Tags)
  IN  [x EXCEPT !.info = IF Assignable(x, key) THEN Put(@, key, used) ELSE @,
                !.dates_all = IF Assignable(x, key) THEN popped ELSE @,
                !.ki = IF last THEN 1 ELSE x.ki + 1,
                !.th = IF last THEN x.th - 1 ELSE x.th,
                !.pc = IF last /\ x.th = 1 THEN "pair6" ELSE "assign"]

\* "handle yukostymd and yukoedymd in the same line", then the test that
\* guards the YukoEdYmd/KofuYmd loop
Pair6Hits(x) ==
  LET dates_from == x.dates_all["YukoStYmd"][ArgMax(x.scores["YukoStYmd"])]
      dates_until == x.dates_all["YukoEdYmd"][ArgMax(x.scores["YukoEdYmd"])]
  IN  /\ "YukoStYmd" \notin DOMAIN x.info
      /\ "YukoEdYmd" \notin DOMAIN x.info
      /\ StrList(dates_from) = StrList(dates_until)
      /\ Len(dates_from) = 2

pair6(x) ==
  LET dates_from == x.dates_all["YukoStYmd"][ArgMax(x.scores["YukoStYmd"])]
      info6 == IF Pair6Hits(x)
               THEN Put(Put(x.info, "YukoStYmd", dates_from[1]),
                        "YukoEdYmd", dates_from[2])
               ELSE x.info
  IN  [x EXCEPT !.info = info6,
                !.i = 1,
                !.ki = 1,
                !.pc = IF Get(info6, "YukoEdYmd") = Null /\ Get(info6, "KofuYmd") = Null
                       THEN "pair7" ELSE "fallback"]

\* one iteration of "handle YukoEdYmd and KofuYmd in the same line"
Pair7Hits(x, idx) ==
  /\ x.scores["KofuYmd"][idx] > 0
  /\ Len(x.dates_all["YukoEdYmd"][idx]) = 2
  /\ Len(x.dates_all["KofuYmd"][idx]) = 2

\* the pair step without "make sure KofuYmd is earlier than YukoEdYmd"
pair7_unswapped(x) ==
  LET pair == x.dates_all["KofuYmd"][x.i]
  IN  [x EXCEPT !.info = IF Pair7Hits(x, x.i)
                         THEN Put(Put(@, "KofuYmd", pair[1]), "YukoEdYmd", pair[2])
                         ELSE @,
                !.i = x.i + 1,
                !.pc = IF x.i = Len(x.scores["YukoEdYmd"]) THEN "fallback" ELSE "pair7"]

\* the pair step reading the pair from YukoEdYmd's list
pair7_from_until(x) ==
  LET pair == Ordered(x.dates_all["YukoEdYmd"][x.i])
  IN  [x EXCEPT !.info = IF Pair7Hits(x, x.i)
                         THEN Put(Put(@, "KofuYmd", pair[1]), "YukoEdYmd", pair[2])
                         ELSE @,
                !.i = x.i + 1,
                !.pc = IF x.i = Len(x.scores["YukoEdYmd"]) THEN "fallback" ELSE "pair7"]

pair7(x) ==
  LET pair == Ordered(x.dates_all["KofuYmd"][x.i])
  IN  [x EXCEPT !.info = IF Pair7Hits(x, x.i)
                         THEN Put(Put(@, "KofuYmd", pair[1]), "YukoEdYmd", pair[2])
                         ELSE @,
                !.i = x.i + 1,
                !.pc = IF x.i = Len(x.scores["YukoEdYmd"]) THEN "fallback" ELSE "pair7"]

\* the lines that still have a date for key, in line order whatever they score
FallbackLines_in_line_order(x, key) ==
  SelectSeq([idx \in 1..Len(x.scores[key]) |-> idx], LAMBDA idx : x.dates_all[key][idx] # <<>>)

\* the first line, by descending score, that still has a date for key
FallbackLines(x, key) ==
  SelectSeq(ArgSortDesc(x.scores[key]), LAMBDA idx : x.dates_all[key][idx] # <<>>)

\* one iteration of the last "for key in self.scores" loop
fallback(x) ==
  LET key == Tags[x.ki]
      fires == Get(x.info, key) = Null /\ FallbackLines(x, key) # <<>>
      idx == FallbackLines(x, key)[1]
      dates == IF key = "Birthday" THEN SortedByStr(x.dates_all[key][idx])
               ELSE x.dates_all[key][idx]
  IN  [x EXCEPT !.info = IF fires THEN Put(@, key, Head(dates)) ELSE @,
                !.dates_all = IF fires THEN [@ EXCEPT ![key][idx] = Tail(dates)] ELSE @,
                !.ki = IF x.ki = Len(Tags) THEN 1 ELSE x.ki + 1,
                !.pc = IF x.ki = Len(Tags) THEN "fill" ELSE "fallback"]

\* for tag in self.match_methods: if tag not in self.info: ... = None
fill(x) ==
  [x EXCEPT !.info = [t \in TagSet |-> Get(x.info, t)],
            !.pc = "done"]

\* the statement of extract at x.pc
step(x) ==
  CASE x.pc = "score" -> reset_score(x)
    [] x.pc = "cands" -> candidates(x)
    [] x.pc = "nms" -> nms(x)
    [] x.pc = "fix4a" -> fix4a(x)
    [] x.pc = "fix4b" -> fix4b(x)
    [] x.pc = "assign" -> assign(x)
    [] x.pc = "pair6" -> pair6(x)
    [] x.pc = "pair7" -> pair7(x)
    [] x.pc = "fallback" -> fallback(x)
    [] x.pc = "fill" -> fill(x)
    [] OTHER -> x

RECURSIVE run(_)
run(x) == IF x.pc \in {"done", "raised"} THEN x ELSE run(step(x))

\* the fields of a DatesFinder after __init__
NewFinder == [scores |-> NoLists, texts |-> NoLists, info |-> NoInfo]

\* self.extract(page), run from its first statement to its return or raise
extract(self, page) ==
  run([scores |-> self.scores, texts |-> self.texts, info |-> self.info,
       page |-> page, dates_all |-> NoLists, pc |-> "score",
       i |-> 0, th |-> 0, ki |-> 0])

\* ---------------------------------------------------------------- finders
\* the loop returning after its first iteration, whatever the extraction gave
wide_pick_best_only(extract_method, r) ==
  LET order == ArgSortDesc(r.scores)
  IN  IF order = <<>> \/ r.scores[order[1]] = 0 THEN VNone
      ELSE getattr_extract(extract_method, r.texts[order[1]])

\* WideFinder.extract, from the scores and cut texts: the first line by
\* descending score with a nonzero score and an extractable value
wide_pick(extract_method, r) ==
  LET good == SelectSeq(ArgSortDesc(r.scores),
                LAMBDA idx : /\ r.scores[idx] # 0
                             /\ getattr_extract(extract_method, r.texts[idx]) # VNone)
  IN  IF good = <<>> THEN VNone ELSE getattr_extract(extract_method, r.texts[good[1]])

\* WideFinder.extract
WideFinder_extract(match_method, extract_method, texts_) ==
  wide_pick(extract_method, score(match_method, texts_, FALSE))

\* SimpleFinder.extract, from the match results: the first matching line
simple_pick(extract_method, match_results) ==
  LET at == {k \in 1..Len(match_results) : match_results[k].hit # 0}
  IN  IF at = {} THEN VNone
      ELSE getattr_extract(extract_method, match_results[MinOf(at)].text)

\* SimpleFinder.extract
SimpleFinder_extract(match_method, extract_method, texts_) ==
  simple_pick(extract_method, match_results_of(match_method, texts_))

\* KigoNumFinder.extract
KigoNumFinder_extract(texts_) ==
  LET res == [k \in 1..Len(texts_) |-> get_kigo_num(texts_[k])]
      hits == {k \in 1..Len(texts_) : res[k].found}
      pairs == {idx \in 1..(Len(texts_) - 1) :
                  get_kigo(texts_[idx]) # VNone /\ get_num(texts_[idx + 1]) # VNone}
  IN  IF hits # {}
      THEN [Kigo |-> VStr(res[MaxIn(hits)].kigo), Num |-> VStr(res[MaxIn(hits)].num)]
      ELSE IF pairs # {}
      THEN [Kigo |-> get_kigo(texts_[MinOf(pairs)]), Num |-> get_num(texts_[MinOf(pairs) + 1])]
      ELSE [Kigo |-> VNone, Num |-> VNone]

\* RouFtnKbnFinder.extract and JgnGakFinder.extract: no line of the
\* catalogues has 割, 一部負担金, 適用区分 or 円, so every loop ends without a
\* hit and None is returned
RouFtnKbnFinder_extract(texts_) == VNone
JgnGakFinder_extract(texts_) == VNone

\* ---------------------------------------------------------------- analyzers
\* An analyzer a: kind (which class), page (the list the caller passed to
\* fit), texts and info (its fields), dates (the fields of its DatesFinder),
\* pc (the statement of fit it is at); and, for the properties, arg (the Page
\* as it was when fit was called), found (info as _finder_fit left it), fits
\* (the number of calls of fit), prev_arg and prev_info (arg and info of the
\* call before).
NoAInfo == [t \in {} |-> VNone]
AGet(info_, key) == IF key \in DOMAIN info_ THEN info_[key] ELSE VNone
have(a, tag) == AGet(a.info, tag) # VNone
FinderFields(x) == [scores |-> x.scores, texts |-> x.texts, info |-> x.info]

\* main_analyzer_back.preprocess: 令和年 becomes 令和元年.  The word boxes of
\* the catalogues' lines are evenly spaced and confidently read, so the three
\* geometry-dependent rewrites leave the text alone.
preprocess(texts_) ==
  [k \in 1..Len(texts_) |->
     [j \in 1..Len(texts_[k]) |-> IF texts_[k][j] = "D0" THEN D1 ELSE texts_[k][j]]]

\* texts = preprocess(texts): the caller's list is rewritten in place
main_preprocess(a) == [a EXCEPT !.page = preprocess(a.page), !.pc = "finder_fit"]

\* _finder_fit with "self.info = {}" left out
finder_fit_keeping_info(a, first, d, last) ==
  LET dates == [tag \in TagSet |-> VDate(Get(d.info, tag))]
      all == [tag \in DOMAIN first \cup TagSet \cup DOMAIN last |->
                IF tag \in DOMAIN first THEN first[tag]
                ELSE IF tag \in TagSet THEN dates[tag] ELSE last[tag]]
      new == IF d.pc = "raised" THEN first ELSE all
      kept == [tag \in DOMAIN a.info \cup DOMAIN new |->
                 IF tag \in DOMAIN new THEN new[tag] ELSE a.info[tag]]
  IN  [a EXCEPT !.texts = a.page,
                !.info = kept,
                !.found = new,
                !.dates = FinderFields(d),
                !.pc = IF d.pc = "raised" THEN "raised"
                       ELSE IF a.kind = "main" THEN "handle_hknjanum" ELSE "handle_nums"]

\* AnalyzerBase._finder_fit: self.info = {}, then every finder of the config
\* in order. first holds the fields of the finders before the dates finder,
\* d is the run of the dates finder, last holds the fields of the finders
\* after it; when the dates finder raises, only first has been stored
finder_fit(a, first, d, last) ==
  LET dates == [tag \in TagSet |-> VDate(Get(d.info, tag))]
      all == [tag \in DOMAIN first \cup TagSet \cup DOMAIN last |->
                IF tag \in DOMAIN first THEN first[tag]
                ELSE IF tag \in TagSet THEN dates[tag] ELSE last[tag]]
      new == IF d.pc = "raised" THEN first ELSE all
  IN  [a EXCEPT !.texts = a.page,
                !.info = new,
                !.found = new,
                !.dates = FinderFields(d),
                !.pc = IF d.pc = "raised" THEN "raised"
                       ELSE IF a.kind = "main" THEN "handle_hknjanum" ELSE "handle_nums"]

\* the fields of KigoNumFinder's result
kigo_num_fields(kn) == [tag \in {"Kigo", "Num"} |-> IF tag = "Kigo" THEN kn.Kigo ELSE kn.Num]

\* MainAnalyzer's config: the wide finders of HknjaNum and Branch are the
\* presets of insurer_match and branch_match
main_finder_fit(a) ==
  finder_fit(a,
             [tag \in {"HknjaNum"} |->
                WideFinder_extract("insurer_match", "get_insurer_num", a.page)]
               @@ kigo_num_fields(KigoNumFinder_extract(a.page)),
             extract(a.dates, a.page),
             [tag \in {"Branch", "RouFtnKbn"} |->
                IF tag = "Branch"
                THEN WideFinder_extract("branch_match", "get_pure_num", a.page)
                ELSE RouFtnKbnFinder_extract(a.page)])

\* MainAnalyzer._handle_hknjanum
handle_hknjanum(a) ==
  LET n == Len(a.page)
      last2 == SubSeq(a.page, IF n < 2 THEN 1 ELSE n - 1, n)
      res == SelectSeq(last2, LAMBDA line : get_insurer_num(line) # VNone)
      plain == SelectSeq(a.page, LAMBDA line : isdigit(line) /\ Len(line) \in {6, 8})
      num == IF have(a, "HknjaNum") THEN a.info["HknjaNum"]
             ELSE IF res # <<>> THEN get_insurer_num(res[1])
             ELSE IF plain # <<>> THEN VStr(plain[1])
             ELSE VNone
  IN  [a EXCEPT !.info = IF num = VNone THEN @ ELSE [@ EXCEPT !["HknjaNum"] = num],
                !.pc = "trim_hknjanum"]

\* MainAnalyzer._trim_hknjanum
trim_hknjanum(a) ==
  LET num == AGet(a.info, "HknjaNum")
      kokuho == \E k \in 1..Len(a.page) : Has(a.page[k], "kokuho")
      cut == SubSeq(num.str, 1, Min2(IF kokuho THEN 6 ELSE 8, Len(num.str)))
  IN  [a EXCEPT !.info = IF num = VNone \/ Len(num.str) < 7 THEN @
                         ELSE [@ EXCEPT !["HknjaNum"] = VStr(cut)],
                !.pc = "handle_branch"]

\* re.findall(r"番号\d+\(?番\)?(\d+)", line): <<>> if nothing is found
BranchOf(line) ==
  LET tail(k) == k + 1 + Len(TakeWhile(line, k + 1, Digits))
      at == {k \in 1..(Len(line) - 3) :
               /\ line[k] \in BangoToks /\ line[k + 1] \in Digits
               /\ tail(k) + 1 <= Len(line)
               /\ line[tail(k)] = "ban" /\ line[tail(k) + 1] \in Digits}
  IN  IF at = {} THEN <<>> ELSE TakeWhile(line, tail(MinOf(at)) + 1, Digits)

\* MainAnalyzer._handle_branch
handle_branch(a) ==
  LET res == SelectSeq(a.page, LAMBDA line : BranchOf(line) # <<>>)
  IN  [a EXCEPT !.info = IF have(a, "Branch") \/ res = <<>> THEN @
                         ELSE [@ EXCEPT !["Branch"] = VStr(BranchOf(res[1]))],
                !.pc = "handle_kigo_num"]

\* MainAnalyzer._handle_kigo_num
handle_kigo_num(a) ==
  LET at == {idx \in 1..(Len(a.page) - 2) :
               /\ Has(a.page[idx], "kigo")
               /\ \E k \in 1..Len(a.page[idx + 2]) : a.page[idx + 2][k] \in BangoToks}
      idx == MinOf(at)
      line == a.page[idx]
  IN  [a EXCEPT !.info = IF have(a, "Kigo") \/ have(a, "Num") \/ at = {} THEN @
                         ELSE [@ EXCEPT !["Kigo"] = VStr(After(line, IndexOf(line, "kigo"))),
                                        !["Num"] = get_num(a.page[idx + 2])],
                !.pc = "get_SkkGetYmd"]

\* MainAnalyzer._get_SkkGetYmd: skk[0] of an empty list raises IndexError
get_SkkGetYmd(a) ==
  LET hits == {k \in 1..Len(a.page) : skkget_match(a.page[k]).hit # 0}
      skk(k) == get_date(skkget_match(a.page[k]).text)
      bad == {k \in hits : skk(k) = <<>>}
      done == IF bad = {} THEN hits ELSE {k \in hits : k < MinOf(bad)}
      new == IF done = {} THEN a.info
             ELSE Put(a.info, "SkkGetYmd", VStr(<<ToString(skk(MaxIn(done))[1])>>))
  IN  IF have(a, "SkkGetYmd") THEN [a EXCEPT !.pc = "clean_kigo_num"]
      ELSE [a EXCEPT !.info = new,
                     !.pc = IF bad = {} THEN "clean_kigo_num" ELSE "raised"]

\* MainAnalyzer._clean_kigo_num; no token spells - . or a parenthesis
clean_kigo_num(a) ==
  LET clean(tag) == IF have(a, tag) THEN VStr(Strip(a.info[tag].str, "nakaguro"))
                    ELSE AGet(a.info, tag)
  IN  [a EXCEPT !.info = [t \in DOMAIN @ |-> IF t \in {"Kigo", "Num"} THEN clean(t) ELSE @[t]],
                !.pc = "done"]

\* KouhiAnalyzer's config: the simple finder of Num is the preset of
\* kohi_num_match
kouhi_finder_fit(a) ==
  finder_fit(a,
             [tag \in {"HknjaNum", "Num"} |->
                IF tag = "HknjaNum"
                THEN WideFinder_extract("insurer_match", "get_insurer_num", a.page)
                ELSE SimpleFinder_extract("kohi_num_match", "get_pure_num", a.page)],
             extract(a.dates, a.page),
             [tag \in {"JgnGak", "RouFtnKbn"} |->
                IF tag = "JgnGak" THEN JgnGakFinder_extract(a.page)
                ELSE RouFtnKbnFinder_extract(a.page)])

\* KouhiAnalyzer._handle_nums: the loop has no break, the last hit decides
handle_nums(a) ==
  LET t == a.page
      at == {idx \in 1..Min2(5, Len(t)) :
               /\ insurer_match(t[idx]).hit # 0
               /\ kohi_num_match(t[idx]).hit # 0
               /\ idx + 1 <= Len(t)
               /\ isdigit(t[idx + 1])}
      next_line == t[MaxIn(at) + 1]
  IN  [a EXCEPT !.info = IF (have(a, "HknjaNum") /\ have(a, "Num")) \/ at = {} THEN @
                         ELSE Put(Put(@, "HknajaNum",
                                      VStr(SubSeq(next_line, 1, Min2(8, Len(next_line))))),
                                  "Num", VStr(SubSeq(next_line, 9, Len(next_line)))),
                !.pc = "handle_kigo"]

\* KIGO 記号(.+)番号 and 記号[^番]+$ on one line: the value the loop over the
\* two patterns leaves, <<>> if neither matches
KigoOf(line) ==
  LET k == IndexOf(line, "kigo")
      ends == {j \in (k + 2)..Len(line) : line[j] = "bango"}
      nobango == \A j \in (k + 1)..Len(line) : line[j] \notin BangoToks \cup {"ban"}
  IN  IF ~Has(line, "kigo") THEN <<>>
      ELSE IF k < Len(line) /\ nobango THEN From(line, k)
      ELSE IF ends # {} THEN SubSeq(line, k + 1, MaxIn(ends) - 1)
      ELSE <<>>

\* KouhiAnalyzer._handle_kigo
handle_kigo(a) ==
  LET res == SelectSeq(a.page, LAMBDA line : KigoOf(line) # <<>>)
      kigo == IF res = <<>> THEN VNone ELSE VStr(KigoOf(res[Len(res)]))
  IN  [a EXCEPT !.info = IF have(a, "Kigo") THEN @ ELSE Put(@, "Kigo", kigo),
                !.pc = "handle_multi_dates"]

\* date_tags, of which the catalogues use 入院
date_tags == <<"nyuin", "nyuingai", "gairai", "tsuin", "chozai", "mu", "wari1">>

\* KouhiAnalyzer._handle_multi_dates
handle_multi_dates(a) ==
  LET t == a.page
      n == Len(t)
      has_from(k) == Has(t[k], "kara")
      has_until(k) == Has(t[k], "made")
      dates(k) == get_date(t[k])
      both(k) == has_from(k) /\ has_until(k) /\ Len(dates(k)) = 2
      idx_f == SelectSeq([k \in 1..n |-> k],
                         LAMBDA k : both(k) \/ (has_from(k) /\ Len(dates(k)) = 1))
      idx_u == SelectSeq([k \in 1..n |-> k],
                         LAMBDA k : both(k) \/ (has_until(k) /\ Len(dates(k)) = 1))
      date_f(j) == dates(idx_f[j])[1]
      date_u(j) == IF both(idx_u[j]) THEN dates(idx_u[j])[2] ELSE dates(idx_u[j])[1]
      start(j) == MaxIn({1, idx_f[j] - 2, idx_u[j] - 2})
      end(j) == MinOf({n, idx_f[j] + 2, idx_u[j] + 2})
      found(j) == Concat([c \in 1..n |->
                    IF c < start(j) \/ c > end(j) THEN <<>>
                    ELSE SelectSeq(date_tags, LAMBDA tag : Has(t[c], tag))])
      pairs == Min2(Len(idx_f), Len(idx_u))
      new(date(_)) == Concat([j \in 1..pairs |->
                        Concat([m \in 1..Len(found(j)) |->
                                  <<found(j)[m], ToString(date(j))>>])])
      fires == Len(idx_u) > 1 /\ Len(idx_f) > 1 /\ new(date_f) # <<>>
  IN  [a EXCEPT !.info = IF fires
                         THEN Put(Put(@, "YukoStYmd", VStr(new(date_f))),
                                  "YukoEdYmd", VStr(new(date_u)))
                         ELSE @,
                !.pc = "done"]

\* the statement of fit at a.pc
fit_step(a) ==
  CASE a.pc = "preprocess" -> main_preprocess(a)
    [] a.pc = "finder_fit" /\ a.kind = "main" -> main_finder_fit(a)
    [] a.pc = "finder_fit" /\ a.kind = "kouhi" -> kouhi_finder_fit(a)
    [] a.pc = "handle_hknjanum" -> handle_hknjanum(a)
    [] a.pc = "trim_hknjanum" -> trim_hknjanum(a)
    [] a.pc = "handle_branch" -> handle_branch(a)
    [] a.pc = "handle_kigo_num" -> handle_kigo_num(a)
    [] a.pc = "get_SkkGetYmd" -> get_SkkGetYmd(a)
    [] a.pc = "clean_kigo_num" -> clean_kigo_num(a)
    [] a.pc = "handle_nums" -> handle_nums(a)
    [] a.pc = "handle_kigo" -> handle_kigo(a)
    [] a.pc = "handle_multi_dates" -> handle_multi_dates(a)
    [] OTHER -> a

RECURSIVE fit_run(_)
fit_run(a) == IF a.pc \in {"done", "raised"} THEN a ELSE fit_run(fit_step(a))

\* AnalyzerBase.__init__ of a MainAnalyzer or KouhiAnalyzer
NewAnalyzer(kind) ==
  [kind |-> kind, arg |-> <<>>, page |-> <<>>, texts |-> <<>>, info |-> NoAInfo,
   dates |-> NewFinder, pc |-> "idle", found |-> NoAInfo, fits |-> 0,
   prev_arg |-> <<>>, prev_info |-> NoAInfo]

\* a.fit(page) is called
fit_call(a, page) ==
  [a EXCEPT !.arg = page,
            !.page = page,
            !.pc = IF a.kind = "main" THEN "preprocess" ELSE "finder_fit",
            !.found = NoAInfo,
            !.fits = a.fits + 1,
            !.prev_arg = a.arg,
            !.prev_info = a.info]

\* a.fit(page), run from its first statement to its return or raise
fit(a, page) == fit_run(fit_call(a, page))

\* ------------------------------------------- dates, character by character
\* The text of a date, one token per character: the digits, and
\*   rei 令  go 合  wa 和  hei 平  sei 成  sho 昭  tai 大  sho2 正  mei 明
\*   chi 治  gan 元  nen 年  gatsu 月  nichi 日  matsu 末  mi 未  me 目
\* Every token that is no digit is matched by \D.
DigitVal(c) == CHOOSE n \in 0..9 : ToString(n) = c

\* int(s) of a string of digits
RECURSIVE int(_)
int(s) == IF s = <<>> THEN 0 ELSE 10 * int(SubSeq(s, 1, Len(s) - 1)) + DigitVal(s[Len(s)])

\* str(n) of a natural number
RECURSIVE str(_)
str(n) == IF n < 10 THEN <<ToString(n)>> ELSE str(n \div 10) \o <<ToString(n % 10)>>

\* s.zfill(2)
zfill2(s) == IF Len(s) < 2 THEN [k \in 1..(2 - Len(s)) |-> "0"] \o s ELSE s

\* date.ERA_OFFSET
ERA_OFFSET(era) ==
  CASE era = "m" -> 1867
    [] era = "t" -> 1911
    [] era = "s" -> 1925
    [] era = "h" -> 1988
    [] era = "r" -> 2018
    [] era = "w" -> 0

\* Date.__init__
Date(year, month, date, era) ==
  [m |-> month, d |-> date, y |-> str(int(year) + ERA_OFFSET(era)),
   jpy |-> IF era # "w" THEN year ELSE <<>>]

\* Date.western_str
western_str(self) == self.y \o zfill2(self.m) \o zfill2(self.d)

\* extract.clean_date: 元年 becomes 1年, and 末日, 未日, 末目, 未目 become 99日
RECURSIVE clean_date(_)
clean_date(text) ==
  IF text = <<>> THEN <<>>
  ELSE IF Len(text) >= 2 /\ text[1] = "gan" /\ text[2] = "nen"
  THEN <<"1", "nen">> \o clean_date(SubSeq(text, 3, Len(text)))
  ELSE IF Len(text) >= 2 /\ text[1] \in {"matsu", "mi"} /\ text[2] \in {"nichi", "me"}
  THEN <<"9", "9", "nichi">> \o clean_date(SubSeq(text, 3, Len(text)))
  ELSE <<Head(text)>> \o clean_date(Tail(text))

\* the alternatives of the first group of DATE[era]; DATE["w"] has none
EraWords(era) ==
  CASE era = "r" -> {<<"rei", "wa">>, <<"go", "wa">>, <<"rei">>}
    [] era = "h" -> {<<"hei", "sei">>, <<"hei">>, <<"sei">>}
    [] era = "s" -> {<<"sho", "wa">>, <<"sho">>}
    [] era = "t" -> {<<"tai", "sho2">>, <<"tai">>, <<"sho2">>}
    [] era = "m" -> {<<"mei", "chi">>, <<"mei">>, <<"chi">>}
    [] era = "w" -> {<<>>}

\* the year group of DATE[era] matches the digits ds
YearOk(era, ds) ==
  LET n == int(ds)
      short == \/ Len(ds) = 1 /\ ds[1] # "0"
               \/ Len(ds) = 2 /\ ds[1] = "0" /\ ds[2] # "0"
      two(max) == Len(ds) = 2 /\ ds[1] # "0" /\ n <= max
  IN  CASE era = "r" -> short \/ two(99)
        [] era = "h" -> short \/ two(49)
        [] era = "s" -> short \/ two(64)
        [] era = "t" -> short \/ two(15)
        [] era = "m" -> short \/ two(45)
        [] era = "w" -> Len(ds) = 4 /\ (SubSeq(ds, 1, 2) = <<"1", "9">> \/ ds[1] = "2")

\* the month group without its last alternative 1[0-2]
MonthOk_to_nine(ds) ==
  \/ Len(ds) = 1 /\ ds[1] # "0"
  \/ Len(ds) = 2 /\ ds[1] = "0" /\ ds[2] # "0"

\* the month group (0[1-9]|[1-9]|1[0-2]) matches the digits ds
MonthOk(ds) ==
  \/ Len(ds) = 1 /\ ds[1] # "0"
  \/ Len(ds) = 2 /\ ds[1] = "0" /\ ds[2] # "0"
  \/ Len(ds) = 2 /\ ds[1] = "1" /\ ds[2] \in {"0", "1", "2"}

\* the day group (0[1-9]|[1-9]|[1-2][0-9]0*|3[0-1]0*|99) matches the digits ds
DayOk(ds) ==
  LET zeros(k) == \A j \in k..Len(ds) : ds[j] = "0" IN
  \/ Len(ds) = 1 /\ ds[1] # "0"
  \/ Len(ds) = 2 /\ ds[1] = "0" /\ ds[2] # "0"
  \/ Len(ds) >= 2 /\ ds[1] \in {"1", "2"} /\ zeros(3)
  \/ Len(ds) >= 2 /\ ds[1] = "3" /\ ds[2] \in {"0", "1"} /\ zeros(3)
  \/ ds = <<"9", "9">>

\* the run of tokens of S at index k, which may lie past the end of the text
Run(text, k, S) == IF k > Len(text) THEN <<>> ELSE TakeWhile(text, k, S)

\* the text has the word w at index p
StartsAt(text, p, w) == p + Len(w) - 1 <= Len(text) /\ SubSeq(text, p, p + Len(w) - 1) = w

NoMatch == [ok |-> FALSE, year |-> <<>>, month |-> <<>>, day |-> <<>>, next |-> 0]

\* DATE[era] tried with its match starting at index p.  What follows a group
\* of digits in the pattern is a character that is no digit, so each group
\* takes a whole run of digits (for "w", whose match may start inside a run,
\* the four digits up to the end of the run).  All alternatives of the era
\* word that match give the same year, month and day.
MatchAt(era, text, p) ==
  LET words == {w \in EraWords(era) : StartsAt(text, p, w)}
      w == CHOOSE x \in words : \A z \in words : Len(z) <= Len(x)
      q == p + Len(w)
      \* "r" has \D? between the era word and the year
      y0 == IF era = "r" /\ q <= Len(text) /\ text[q] \notin Digits THEN q + 1 ELSE q
      year == IF era = "w" THEN SubSeq(text, y0, Min2(y0 + 3, Len(text)))
              ELSE Run(text, y0, Digits)
      s0 == y0 + Len(year)
      sep == Run(text, s0, {text[k] : k \in 1..Len(text)} \ Digits)
      m0 == s0 + Len(sep)
      month == Run(text, m0, Digits)
      d0 == m0 + Len(month) + 1
      day == Run(text, d0, Digits)
      end == d0 + Len(day)
      ok == /\ words # {}
            /\ y0 <= Len(text)
            /\ isdigit(year) /\ YearOk(era, year)
            /\ (era = "w" => s0 > Len(text) \/ text[s0] \notin Digits)
            /\ Len(sep) \in 1..3
            /\ MonthOk(month)
            /\ d0 - 1 <= Len(text) /\ text[d0 - 1] \notin Digits
            /\ d0 <= Len(text) /\ DayOk(day)
  IN  IF ~ok THEN NoMatch
      ELSE [ok |-> TRUE, year |-> year, month |-> month, day |-> day,
            next |-> IF end <= Len(text) THEN end + 1 ELSE end]

\* DATE[era].findall(text) from index p on: the Dates of the matches, which
\* do not overlap; the last group (\D|$) takes the character after the day
RECURSIVE findall(_, _, _)
findall(era, text, p) ==
  IF p > Len(text) THEN <<>>
  ELSE LET m == MatchAt(era, text, p)
       IN  IF m.ok THEN <<Date(m.year, m.month, m.day, era)>> \o findall(era, text, m.next)
           ELSE findall(era, text, p + 1)

\* get_date on a text of characters: the Dates of its matches, era by era
get_date_text(text) ==
  Concat([e \in 1..Len(EraOrder) |-> findall(EraOrder[e], clean_date(text), 1)])

\* ------------------------------------------------------------------ inputs
\* The lines a Page is drawn from, as the token sequences of
\*   ""                                    "令和元年1月2日"
\*   "令和2年1月2日"                        "生年月日"
\*   "生年月日平成30年4月1日"               "有効期限"
\*   "有効期限令和2年1月2日"                "発効期日令和元年1月2日"
\*   "令和元年1月2日交付"                   "令和元年1月2日から"
\*   "令和2年1月2日まで"                    "令和元年1月2日から令和2年1月2日まで"
\*   "令和2年1月2日から令和元年1月2日まで"  "自令和元年1月2日至令和2年1月2日"
\*   "有効期限交付年月日令和元年1月2日令和2年1月2日"
\*   "交付年月日令和2年1月2日平成30年4月1日"
\*   "発効期日令和元年1月2日令和2年1月2日"   "令和元年1月2日発効期日令和2年1月2日"
\*   "発効期日交付年月日令和元年1月2日"     "発効期日有効期限令和元年1月2日"
\*   "生年月日有効期限令和元年1月2日"
\*   "令和元年1月2日交付令和2年1月2日まで平成30年4月1日"
\*   "生年月日平成30年4月1日交付令和元年1月2日"
\*   "平成30年4月1日から令和元年1月2日まで"
Lines ==
  { <<>>,
    <<D1>>,
    <<D2>>,
    <<Kw("birthday")>>,
    <<Kw("birthday"), D3>>,
    <<Kw("birthday"), D3, Kw("kofu"), D1>>,
    <<Kw("valid_until")>>,
    <<Kw("valid_until"), D2>>,
    <<Kw("valid_from"), D1>>,
    <<D1, Kw("kofu")>>,
    <<D1, Kw("kara")>>,
    <<D2, Kw("made")>>,
    <<D1, Kw("kara"), D2, Kw("made")>>,
    <<D2, Kw("kara"), D1, Kw("made")>>,
    <<D3, Kw("kara"), D1, Kw("made")>>,
    <<Kw("ji"), D1, Kw("shi"), D2>>,
    <<Kw("valid_until"), Kw("kofu"), D1, D2>>,
    <<Kw("kofu"), D2, D3>>,
    <<Kw("valid_from"), D1, D2>>,
    <<D1, Kw("valid_from"), D2>>,
    <<Kw("valid_from"), Kw("kofu"), D1>>,
    <<Kw("valid_from"), Kw("valid_until"), D1>>,
    <<Kw("birthday"), Kw("valid_until"), D1>>,
    <<D1, Kw("kofu"), D2, Kw("made"), D3>> }

Pages == UNION {[1..n -> Lines] : n \in 0..MaxLines}

\* The lines the Pages of an analyzer are drawn from.  For MainAnalyzer:
\*   "保険者番号12345678"   "国民健康保険"      "記号12・番号34"
\*   "記号12"               "番号34"            "資格取得年月日"
\*   "資格取得年月日平成30年4月1日"             "123456"
\*   "令和年1月2日から"     "発効期日令和元年1月2日"   "番号12番345"
\*   "生年月日平成30年4月1日"
MainLines ==
  { <<"hokenja", "1", "2", "3", "4", "5", "6", "7", "8">>,
    <<"kokuho">>,
    <<"kigo", "1", "2", "nakaguro", "bango", "3", "4">>,
    <<"kigo", "1", "2">>,
    <<"bango", "3", "4">>,
    <<"skkget">>,
    <<"skkget", D3>>,
    <<"1", "2", "3", "4", "5", "6">>,
    <<"D0", Kw("kara")>>,
    <<Kw("valid_from"), D1>>,
    <<"bango", "1", "2", "ban", "3", "4", "5">>,
    <<Kw("birthday"), D3>> }

\* For KouhiAnalyzer:
\*   "公費負担者番号受給者番号"   "12345678901"   "12345"
\*   "受給者番号7654321"   "入院令和元年1月2日から令和2年1月2日まで"
\*   "令和元年1月2日から"  "令和2年1月2日まで"   "記号12・番号34"
\*   "有効期限令和2年1月2日"
KouhiLines ==
  { <<"kohi", "jukyu">>,
    <<"1", "2", "3", "4", "5", "6", "7", "8", "9", "0", "1">>,
    <<"1", "2", "3", "4", "5">>,
    <<"jukyu", "7", "6", "5", "4", "3", "2", "1">>,
    <<"nyuin", D1, Kw("kara"), D2, Kw("made")>>,
    <<D1, Kw("kara")>>,
    <<D2, Kw("made")>>,
    <<"kigo", "1", "2", "nakaguro", "bango", "3", "4">>,
    <<Kw("valid_until"), D2>> }

MaxFitLines == 3
FitLines(kind) == IF kind = "main" THEN MainLines ELSE KouhiLines
FitPages(kind) == UNION {[1..n -> FitLines(kind)] : n \in 0..MaxFitLines}

\* The Pages of the runs in which one instance processes several documents
MaxCalls == 2
ReusePages ==
  UNION {[1..n -> {<<Kw("birthday"), D3>>, <<Kw("valid_until"), D2>>,
                   <<D1, Kw("kara"), D2, Kw("made")>>}] : n \in 0..MaxLines}
ReuseFitLines(kind) ==
  IF kind = "main"
  THEN {<<"hokenja", "1", "2", "3", "4", "5", "6", "7", "8">>,
        <<"skkget", D3>>, <<Kw("valid_from"), D1, D2>>, <<Kw("birthday"), D3>>}
  ELSE {<<"kohi", "jukyu">>, <<"1", "2", "3", "4", "5">>,
        <<"nyuin", D1, Kw("kara"), D2, Kw("made")>>, <<Kw("valid_until"), D2>>}
ReuseFitPages(kind) == UNION {[1..n -> ReuseFitLines(kind)] : n \in 0..MaxLines}

\* The Pages of two calls that run at the same time: one line each
ConcPages ==
  {<<line>> : line \in {<<D1>>, <<Kw("birthday"), D3>>, <<Kw("valid_until"), D2>>,
                        <<D1, Kw("kofu")>>, <<D1, Kw("kara"), D2, Kw("made")>>,
                        <<Kw("valid_until"), Kw("kofu"), D1, D2>>,
                        <<Kw("valid_from"), D1, D2>>}}

\* The texts of characters get_date is called on: an era word (令和, 平成, 明治
\* or none for a western year), a year, 年, a month, 月, a day, and 日 or the
\* end of the text.
DateWords == {<<"rei", "wa">>, <<"hei", "sei">>, <<"mei", "chi">>, <<>>}
DateYears(word) ==
  IF word = <<>> THEN {<<"1", "9", "8", "9">>, <<"2", "0", "2", "1">>}
  ELSE {<<"1">>, <<"gan">>, <<"0", "2">>, <<"3", "0">>}
DateMonths == {<<"1">>, <<"0", "4">>, <<"1", "2">>}
DateDays == {<<"2">>, <<"0", "1">>, <<"1", "0">>, <<"3", "1">>, <<"9", "9">>, <<"matsu">>,
             <<"1", "0", "0">>}
DateTails == {<<"nichi">>, <<>>}
\* The dates whose canonical string, or written form, get_date is called on
CalendarDates ==
  {Date(str(y), m, d, "w") :
     y \in {1868, 1989, 2019, 2021},
     m \in {<<"1">>, <<"0", "4">>, <<"1", "0">>, <<"1", "2">>},
     d \in {<<"1">>, <<"9">>, <<"0", "9">>, <<"1", "0">>, <<"2", "2">>, <<"3", "1">>, <<"9", "9">>}}
Written(year, month, day) == year \o <<"nen">> \o month \o <<"gatsu">> \o day \o <<"nichi">>
DateTexts ==
  {word \o year \o <<"nen">> \o month \o <<"gatsu">> \o day \o tail :
     word \in DateWords, year \in UNION {DateYears(w) : w \in DateWords},
     month \in DateMonths, day \in DateDays, tail \in DateTails}

\* ------------------------------------------------------------------- state
\* scores, texts, info: the fields of the one DatesFinder instance.
\* frame[t]: the locals of the call that thread t is running.
\* hist[t]: what the properties below need to remember of thread t's calls.
\* analyzer: the one MainAnalyzer or KouhiAnalyzer instance.
\* ex: a call of get_date on a text of characters: the text, the Dates it
\* returned, and (of) the canonical string the text was made from.
VARIABLES scores, texts, info, frame, hist, analyzer, ex
vars == <<scores, texts, info, frame, hist, analyzer, ex>>

Threads == {1, 2}

IdleFrame == [page |-> <<>>, dates_all |-> NoLists, pc |-> "idle", i |-> 0, th |-> 0, ki |-> 0]
NoHist == [calls |-> 0, cand0 |-> NoLists, by |-> [t \in TagSet |-> ""],
           ret |-> NoInfo, prev_ret |-> NoInfo, prev_page |-> <<>>]

NoEx == [pc |-> "idle", text |-> <<>>, dates |-> <<>>, of |-> <<>>]

\* DatesFinder.__init__
Init ==
  /\ scores = NoLists
  /\ texts = NoLists
  /\ info = NoInfo
  /\ frame = [t \in Threads |-> IdleFrame]
  /\ hist = [t \in Threads |-> NoHist]
  /\ analyzer \in {NewAnalyzer("main"), NewAnalyzer("kouhi")}
  /\ ex = NoEx

\* the record a step of thread t works on, and the state after the step
X(t) == [scores |-> scores, texts |-> texts, info |-> info,
         page |-> frame[t].page, dates_all |-> frame[t].dates_all,
         pc |-> frame[t].pc, i |-> frame[t].i, th |-> frame[t].th, ki |-> frame[t].ki]

Apply(t, y) ==
  /\ scores' = y.scores
  /\ texts' = y.texts
  /\ info' = y.info
  /\ frame' = [frame EXCEPT ![t] = [page |-> y.page, dates_all |-> y.dates_all,
                                    pc |-> y.pc, i |-> y.i, th |-> y.th, ki |-> y.ki]]
  /\ hist' = [hist EXCEPT
       ![t].cand0 = IF frame[t].pc = "cands" THEN y.dates_all ELSE @,
       ![t].by = [g \in TagSet |->
                    IF Get(y.info, g) # Get(info, g) THEN frame[t].pc ELSE @[g]],
       ![t].ret = IF y.pc = "done" THEN y.info ELSE @]
  /\ UNCHANGED <<analyzer, ex>>

\* finder.extract(texts) is called
Call(t, p) ==
  /\ frame[t].pc = "idle"
  /\ frame' = [frame EXCEPT ![t] = [IdleFrame EXCEPT !.page = p, !.pc = "score"]]
  /\ hist' = [hist EXCEPT ![t] = [NoHist EXCEPT !.calls = 1]]
  /\ UNCHANGED <<scores, texts, info, analyzer, ex>>

\* the call has returned and extract is called again
CallAgain(t, p) ==
  /\ frame[t].pc = "done"
  /\ hist[t].calls = 1
  /\ frame' = [frame EXCEPT ![t] = [IdleFrame EXCEPT !.page = p, !.pc = "score"]]
  /\ hist' = [hist EXCEPT ![t] = [NoHist EXCEPT !.calls = hist[t].calls + 1,
                                                !.prev_ret = hist[t].ret,
                                                !.prev_page = frame[t].page]]
  /\ UNCHANGED <<scores, texts, info, analyzer, ex>>

ResetScore(t) == frame[t].pc = "score" /\ Apply(t, reset_score(X(t)))
Candidates(t) == frame[t].pc = "cands" /\ Apply(t, candidates(X(t)))
Nms(t) == frame[t].pc = "nms" /\ Apply(t, nms(X(t)))
Fix4a(t) == frame[t].pc = "fix4a" /\ Apply(t, fix4a(X(t)))
Fix4b(t) == frame[t].pc = "fix4b" /\ Apply(t, fix4b(X(t)))
Assign(t) == frame[t].pc = "assign" /\ Apply(t, assign(X(t)))
Pair6(t) == frame[t].pc = "pair6" /\ Apply(t, pair6(X(t)))
Pair7(t) == frame[t].pc = "pair7" /\ Apply(t, pair7(X(t)))
Fallback(t) == frame[t].pc = "fallback" /\ Apply(t, fallback(X(t)))
Fill(t) == frame[t].pc = "fill" /\ Apply(t, fill(X(t)))

\* one call of extract on a fresh finder, then a second one on the same Page
Next ==
  \/ frame[1].pc = "idle" /\ \E p \in Pages : Call(1, p)
  \/ CallAgain(1, frame[1].page)
  \/ ResetScore(1)
  \/ Candidates(1)
  \/ Nms(1)
  \/ Fix4a(1)
  \/ Fix4b(1)
  \/ Assign(1)
  \/ Pair6(1)
  \/ Pair7(1)
  \/ Fallback(1)
  \/ Fill(1)

Spec == Init /\ [][Next]_vars

\* finder.extract(p), from its first statement to its return or raise
Returns(t, y) ==
  /\ frame[t].pc \in {"idle", "done", "raised"}
  /\ hist[t].calls < MaxCalls
  /\ scores' = y.scores
  /\ texts' = y.texts
  /\ info' = y.info
  /\ frame' = [frame EXCEPT ![t] = [page |-> y.page, dates_all |-> y.dates_all,
                                    pc |-> y.pc, i |-> y.i, th |-> y.th, ki |-> y.ki]]
  /\ hist' = [hist EXCEPT ![t] = [NoHist EXCEPT !.calls = hist[t].calls + 1,
                                                !.ret = y.info,
                                                !.prev_ret = hist[t].ret,
                                                !.prev_page = frame[t].page]]
  /\ UNCHANGED <<analyzer, ex>>

Extract(t, p) == Returns(t, extract([scores |-> scores, texts |-> texts, info |-> info], p))

\* analyzer.fit(p) is called, for the first time or after an earlier fit
FitCall(p) ==
  /\ analyzer.pc \in {"idle", "done", "raised"}
  /\ analyzer.fits < MaxCalls
  /\ analyzer' = fit_call(analyzer, p)
  /\ UNCHANGED <<scores, texts, info, frame, hist, ex>>

\* a statement of fit has run
Becomes(a) ==
  /\ analyzer' = a
  /\ UNCHANGED <<scores, texts, info, frame, hist, ex>>

Preprocess == analyzer.pc = "preprocess" /\ Becomes(main_preprocess(analyzer))
MainFinderFit ==
  analyzer.pc = "finder_fit" /\ analyzer.kind = "main" /\ Becomes(main_finder_fit(analyzer))
HandleHknjanum == analyzer.pc = "handle_hknjanum" /\ Becomes(handle_hknjanum(analyzer))
TrimHknjanum == analyzer.pc = "trim_hknjanum" /\ Becomes(trim_hknjanum(analyzer))
HandleBranch == analyzer.pc = "handle_branch" /\ Becomes(handle_branch(analyzer))
HandleKigoNum == analyzer.pc = "handle_kigo_num" /\ Becomes(handle_kigo_num(analyzer))
GetSkkGetYmd == analyzer.pc = "get_SkkGetYmd" /\ Becomes(get_SkkGetYmd(analyzer))
CleanKigoNum == analyzer.pc = "clean_kigo_num" /\ Becomes(clean_kigo_num(analyzer))
KouhiFinderFit ==
  analyzer.pc = "finder_fit" /\ analyzer.kind = "kouhi" /\ Becomes(kouhi_finder_fit(analyzer))
HandleNums == analyzer.pc = "handle_nums" /\ Becomes(handle_nums(analyzer))
HandleKigo == analyzer.pc = "handle_kigo" /\ Becomes(handle_kigo(analyzer))
HandleMultiDates == analyzer.pc = "handle_multi_dates" /\ Becomes(handle_multi_dates(analyzer))

FitSteps ==
  \/ Preprocess
  \/ MainFinderFit
  \/ HandleHknjanum
  \/ TrimHknjanum
  \/ HandleBranch
  \/ HandleKigoNum
  \/ GetSkkGetYmd
  \/ CleanKigoNum
  \/ KouhiFinderFit
  \/ HandleNums
  \/ HandleKigo
  \/ HandleMultiDates

\* one fit of a fresh analyzer
NextFit ==
  \/ analyzer.pc = "idle" /\ \E p \in FitPages(analyzer.kind) : FitCall(p)
  \/ FitSteps

SpecFit == Init /\ [][NextFit]_vars

\* an instance processes one document after another: the finder on its own,
\* or the analyzer and with it the DatesFinder it holds
NextReuse ==
  \/ analyzer.fits = 0 /\ \E p \in ReusePages : Extract(1, p)
  \/ hist[1].calls = 0 /\ \E p \in ReuseFitPages(analyzer.kind) : FitCall(p)
  \/ FitSteps

SpecReuse == Init /\ [][NextReuse]_vars

\* two threads that each call extract of the one finder, arbitrarily
\* interleaved statement by statement
Steps(t) ==
  \/ ResetScore(t)
  \/ Candidates(t)
  \/ Nms(t)
  \/ Fix4a(t)
  \/ Fix4b(t)
  \/ Assign(t)
  \/ Pair6(t)
  \/ Pair7(t)
  \/ Fallback(t)
  \/ Fill(t)

NextConc ==
  \/ \E t \in Threads : frame[t].pc = "idle" /\ \E p \in ConcPages : Call(t, p)
  \/ Steps(1)
  \/ Steps(2)

SpecConc == Init /\ [][NextConc]_vars

\* get_date(t) is called on a text of characters
GetDate(t) ==
  /\ ex.pc = "idle"
  /\ ex' = [pc |-> "extracted", text |-> t, dates |-> get_date_text(t), of |-> <<>>]
  /\ UNCHANGED <<scores, texts, info, frame, hist, analyzer>>

\* get_date is called on str(d) of a Date d
Reparse(d) ==
  /\ ex.pc = "idle"
  /\ ex' = [pc |-> "reparsed", text |-> western_str(d),
            dates |-> get_date_text(western_str(d)), of |-> western_str(d)]
  /\ UNCHANGED <<scores, texts, info, frame, hist, analyzer>>

\* get_date is called on a Date d written as year 年 month 月 day 日
Rewrite(d) ==
  /\ ex.pc = "idle"
  /\ ex' = [pc |-> "rewritten", text |-> Written(d.y, d.m, d.d),
            dates |-> get_date_text(Written(d.y, d.m, d.d)), of |-> western_str(d)]
  /\ UNCHANGED <<scores, texts, info, frame, hist, analyzer>>

NextDate ==
  \/ \E t \in DateTexts : GetDate(t)
  \/ \E d \in CalendarDates : Reparse(d)
  \/ \E d \in CalendarDates : Rewrite(d)

SpecDate == Init /\ [][NextDate]_vars

\* --------------------------------------------------------------- properties
\* the field map by canonical string
StrMap(m) == [t \in TagSet |-> Str(Get(m, t))]
\* the canonical strings of a role's candidates, over all lines
StrsOf(lists) == UNION {{Str(lists[idx][k]) : k \in 1..Len(lists[idx])} : idx \in 1..Len(lists)}
StrSet(ds) == {Str(ds[k]) : k \in 1..Len(ds)}
Running(t) == frame[t].pc \notin {"idle", "score", "cands"}

\* C1 as stated: every value returned for a role was one of that role's own
\* candidates, on some line, as the extractor computed them.
C1_OwnCandidate ==
  frame[1].pc = "done" =>
    \A g \in TagSet : Get(info, g) # Null => Str(info[g]) \in StrsOf(hist[1].cand0[g])

\* C1 amended: no value is invented.  A value a role holds was one of the
\* role's own candidates, unless the two-date fixup put it there (then it was
\* one of YukoEdYmd's candidates) or the YukoEdYmd/KofuYmd pair step did (then
\* it was one of KofuYmd's candidates).
Donor(g, by) ==
  CASE by = "fix4b" -> "YukoEdYmd"
    [] by = "pair7" -> "KofuYmd"
    [] OTHER -> g

C1_NoInvention ==
  Running(1) =>
    \A g \in TagSet :
      Get(info, g) # Null =>
        Str(info[g]) \in StrsOf(hist[1].cand0[Donor(g, hist[1].by[g])])

\* the fixup gave YukoStYmd a value that is none of its own candidates
C1_Witness ==
  /\ frame[1].pc = "done"
  /\ hist[1].by["YukoStYmd"] = "fix4b"
  /\ Str(info["YukoStYmd"]) \notin StrsOf(hist[1].cand0["YukoStYmd"])

\* C2: a second extract on the same finder with the same Page returns the
\* same field map, by canonical string.
C2_Idempotent ==
  (frame[1].pc = "done" /\ hist[1].calls = 2) =>
    /\ DOMAIN info = DOMAIN hist[1].prev_ret
    /\ StrMap(info) = StrMap(hist[1].prev_ret)

C2_Witness ==
  /\ frame[1].pc = "done"
  /\ hist[1].calls = 2
  /\ \E g \in TagSet : Get(info, g) # Null
  /\ \E g \in TagSet : Get(info, g) = Null

\* C5 as stated: for every Page, of zero lines too, extract returns a map of
\* exactly the four keys and never raises.
C5_NeverRaises ==
  /\ frame[1].pc # "raised"
  /\ frame[1].pc = "done" => DOMAIN info = TagSet

\* C7: from the suppression pass on, no step of a call adds an element to any
\* role's candidate list on any line.
Shrinks(old, new) ==
  \A g \in TagSet :
    /\ Len(new[g]) = Len(old[g])
    /\ \A idx \in 1..Len(old[g]) :
         /\ Len(new[g][idx]) <= Len(old[g][idx])
         /\ \A k \in 1..Len(new[g][idx]) : InList(new[g][idx][k], old[g][idx])

C7_Monotone ==
  [][frame[1].pc \in {"nms", "fix4a", "fix4b", "assign", "pair6", "pair7", "fallback", "fill"}
       => Shrinks(frame[1].dates_all, frame'[1].dates_all)]_vars

\* an iteration of the threshold assignment has removed a candidate
C7_Witness ==
  /\ frame[1].pc = "assign"
  /\ \E g \in TagSet : \E idx \in 1..Len(frame[1].dates_all[g]) :
       /\ Len(frame[1].dates_all[g][idx]) < Len(hist[1].cand0[g][idx])
       /\ frame[1].dates_all[g][idx] # <<>>

\* C8 as stated: once the suppression pass is over, on a line where exactly
\* one role scores 2 or more, no other role still holds a candidate whose
\* canonical string is that of one of the claiming role's candidates.
C8_Suppressed ==
  frame[1].pc = "fix4a" =>
    \A i \in 1..Len(frame[1].page) :
      Len(Claimants(X(1), i)) = 1 =>
        \A g \in TagSet \ {Claimants(X(1), i)[1]} :
          StrSet(frame[1].dates_all[g][i])
            \cap StrSet(frame[1].dates_all[Claimants(X(1), i)[1]][i]) = {}

\* C9 as stated: a value a resolution step gave a role is not replaced by a
\* different one later in the call.
ResolutionSteps == {"assign", "pair6", "pair7", "fallback"}

C9_NeverReplaced ==
  [][\A g \in TagSet :
       (Get(info, g) # Null /\ hist[1].by[g] \in ResolutionSteps /\ frame'[1].pc # "score")
         => Str(Get(info', g)) = Str(Get(info, g))]_vars

\* C3: what extract returns, and the info a fit leaves, is what a fresh
\* instance gives for the same Page, whatever Pages the instance has
\* processed before; this holds for the DatesFinder an analyzer holds too, and
\* for a call that raises.
C3_DependsOnlyOnPage ==
  /\ frame[1].pc \in {"done", "raised"} =>
       LET fresh == extract(NewFinder, frame[1].page) IN
         /\ frame[1].pc = fresh.pc
         /\ DOMAIN info = DOMAIN fresh.info
         /\ StrMap(info) = StrMap(fresh.info)
  /\ analyzer.pc \in {"done", "raised"} =>
       LET fresh == fit(NewAnalyzer(analyzer.kind), analyzer.arg) IN
         /\ analyzer.pc = fresh.pc
         /\ analyzer.info = fresh.info
         /\ analyzer.dates.info = fresh.dates.info

\* a second fit on another Page has returned; the fit before had resolved a
\* date role, or SkkGetYmd, that this one leaves unresolved
C3_Witness ==
  /\ analyzer.pc = "done"
  /\ analyzer.fits = 2
  /\ analyzer.prev_arg # analyzer.arg
  /\ \E tag \in TagSet \cup {"SkkGetYmd"} :
       AGet(analyzer.prev_info, tag) # VNone /\ AGet(analyzer.info, tag) = VNone
  /\ \E tag \in TagSet : AGet(analyzer.info, tag) # VNone

\* C4 as stated: each of two calls that run at the same time on the one
\* finder returns the field map it returns when run alone.
C4_Isolated ==
  \A t \in Threads :
    frame[t].pc = "done" =>
      StrMap(hist[t].ret) = StrMap(extract(NewFinder, frame[t].page).info)

\* C6 as stated: MainAnalyzer.fit on a Page with a line that skkget_match
\* matches and that has no date does not raise, and SkkGetYmd stays null.
NoSkkDate(p) ==
  \E k \in 1..Len(p) :
    skkget_match(p[k]).hit # 0 /\ get_date(skkget_match(p[k]).text) = <<>>

C6_MissingDateIsNull ==
  (analyzer.kind = "main" /\ NoSkkDate(analyzer.page)) =>
    /\ analyzer.pc # "raised"
    /\ analyzer.pc = "done" => AGet(analyzer.info, "SkkGetYmd") = VNone

\* C10 as stated: a statement of fit that follows _finder_fit changes a field
\* only if the field is null when the statement runs.
C10_OnlyNullFieldsChange ==
  [][analyzer.pc \notin {"idle", "done", "raised", "preprocess", "finder_fit"} =>
       \A tag \in DOMAIN analyzer.info :
         analyzer.info[tag] # VNone => AGet(analyzer'.info, tag) = analyzer.info[tag]]_vars

\* C11 as stated: when MainAnalyzer.fit or KouhiAnalyzer.fit has returned (and
\* with it the extract of the DatesFinder it holds), the Page the caller
\* passed in holds the text it held when the call was made.
C11_PageUnchanged ==
  analyzer.pc = "done" => analyzer.page = analyzer.arg

\* the raw hits of a role's matcher on the lines of a Page, and the
\* neighbour-propagating score of a hit vector
Hits(tag, p) == [k \in 1..Len(p) |-> getattr_match(match_methods(tag), p[k]).hit]
Extended(h) ==
  [k \in 1..Len(h) |->
     2 * h[k] + (IF k > 1 THEN h[k - 1] ELSE 0) + (IF k < Len(h) THEN h[k + 1] ELSE 0)]
\* YukoEdYmd's hits on the first two lines sum to exactly 1
UntilException(p) == SumSeq(SubSeq(Hits("YukoEdYmd", p), 1, Min2(2, Len(p)))) = 1

ExtendedTags(p) == {"Birthday"} \cup (IF UntilException(p) THEN {"YukoEdYmd"} ELSE {})

\* C13: a score vector computed in extended mode has one entry per line of the
\* Page, and entry i is 2*hit[i] + hit[i-1] + hit[i+1], a neighbour that is
\* out of range counting 0.
C13_ExtendedFormula ==
  analyzer.pc \notin {"idle", "preprocess", "finder_fit"} =>
    \A tag \in ExtendedTags(analyzer.page) :
      LET h == Hits(tag, analyzer.page)
          sc == analyzer.dates.scores[tag]
      IN  /\ Len(sc) = Len(analyzer.page)
          /\ \A i \in 1..Len(sc) :
               sc[i] = 2 * h[i] + (IF i - 1 \in DOMAIN h THEN h[i - 1] ELSE 0)
                                + (IF i + 1 \in DOMAIN h THEN h[i + 1] ELSE 0)

\* a Page of three lines whose middle line is not matched and has a matched
\* line on either side
C13_Witness ==
  /\ analyzer.pc = "done"
  /\ Len(analyzer.page) = 3
  /\ \E tag \in ExtendedTags(analyzer.page) :
       /\ Hits(tag, analyzer.page)[2] = 0
       /\ Hits(tag, analyzer.page)[1] > 0
       /\ Hits(tag, analyzer.page)[3] > 0
       /\ analyzer.dates.scores[tag][2] > 1

\* the line has a word for which valid_from_match or valid_until_match
\* returns 2: 自, から, 至, まで
RangeWord(line) == \E w \in {"ji", "kara", "shi", "made"} : Has(line, w)

WideFinders(kind) ==
  IF kind = "main"
  THEN {<<"HknjaNum", "insurer_match", "get_insurer_num">>,
        <<"Branch", "branch_match", "get_pure_num">>}
  ELSE {<<"HknjaNum", "insurer_match", "get_insurer_num">>}

\* C15 as stated: the value a wide finder returns is the extraction from the
\* one highest-scoring line, the first of them on a tie, whether or not that
\* extraction gave a value.
C15_BestLineOnly ==
  \A f \in WideFinders(analyzer.kind) :
    f[1] \in DOMAIN analyzer.found =>
      LET r == score(f[2], analyzer.page, FALSE)
      IN  analyzer.found[f[1]] =
            IF r.scores = <<>> \/ MaxOf(r.scores) = 0 THEN VNone
            ELSE getattr_extract(f[3], r.texts[ArgMax(r.scores)])

\* C15 amended: the value is the extraction from the first line, by
\* descending score and then by position, that has a nonzero score and gives
\* a value; it is None if there is no such line.
C15_FirstExtractable ==
  \A f \in WideFinders(analyzer.kind) :
    f[1] \in DOMAIN analyzer.found =>
      LET r == score(f[2], analyzer.page, FALSE)
          good == {i \in 1..Len(r.scores) :
                     r.scores[i] # 0 /\ getattr_extract(f[3], r.texts[i]) # VNone}
      IN  IF good = {} THEN analyzer.found[f[1]] = VNone
          ELSE \E i \in good :
                 /\ analyzer.found[f[1]] = getattr_extract(f[3], r.texts[i])
                 /\ \A j \in good \ {i} :
                      r.scores[j] < r.scores[i] \/ (r.scores[j] = r.scores[i] /\ j > i)

\* the highest-scoring line gives no value and the finder returns the value
\* of a line that scores less
C15_Witness ==
  /\ analyzer.pc = "done"
  /\ \E f \in WideFinders(analyzer.kind) :
       LET r == score(f[2], analyzer.page, FALSE)
       IN  /\ getattr_extract(f[3], r.texts[ArgMax(r.scores)]) = VNone
           /\ MaxOf(r.scores) > 0
           /\ analyzer.found[f[1]] # VNone

\* the canonical string c is YYYYMMDD with a month 01-12 and a day 01-31 or 99
CanonYear(c) == int(SubSeq(c, 1, 4))
CanonMonth(c) == int(SubSeq(c, 5, 6))
CanonDay(c) == int(SubSeq(c, 7, 8))
ValidCanon(c) ==
  /\ Len(c) = 8
  /\ isdigit(c)
  /\ CanonMonth(c) \in 1..12
  /\ CanonDay(c) \in (1..31) \cup {99}

\* C16 as stated: get_date on the canonical string of a valid date whose day
\* is not 99 returns one Date, and its canonical string is the one parsed.
C16_RoundTrip ==
  (ex.pc = "reparsed" /\ ValidCanon(ex.of) /\ CanonDay(ex.of) # 99) =>
    /\ Len(ex.dates) = 1
    /\ western_str(ex.dates[1]) = ex.of

\* C16 amended: get_date on a valid date of the years 1900 to 2999 whose day
\* is not 99, written as year 年 month 月 day 日, returns one Date, and its
\* canonical string is that of the date written.
C16_WrittenRoundTrip ==
  (/\ ex.pc = "rewritten"
   /\ ValidCanon(ex.of)
   /\ CanonDay(ex.of) # 99
   /\ CanonYear(ex.of) >= 1900) =>
    /\ Len(ex.dates) = 1
    /\ western_str(ex.dates[1]) = ex.of

\* a date of January, written with a month and a day of one digit, has
\* been parsed back
C16_Witness ==
  /\ ex.pc = "rewritten"
  /\ ValidCanon(ex.of)
  /\ CanonDay(ex.of) = 9
  /\ CanonMonth(ex.of) = 1
  /\ Len(ex.text) = 9
  /\ \E k \in 1..Len(ex.dates) : western_str(ex.dates[k]) = ex.of

\* C17 as stated: the canonical string of every Date get_date returns is
\* YYYYMMDD: eight digits, a month 01-12 and a day 01-31 or 99.
C17_EightDigits ==
  ex.pc = "extracted" =>
    \A k \in 1..Len(ex.dates) : ValidCanon(western_str(ex.dates[k]))

\* ------------------------------------------------------------------- C18
\* C18: when the threshold assignment moves from a threshold t to t-1, or
\* leaves the loop after threshold 1, no unresolved key has a maximum score
\* of at least t that exactly one line attains and on which exactly one
\* candidate remains.
ThresholdDone ==
  /\ frame[1].pc \in {"assign", "pair6"}
  /\ frame[1].ki = 1
  /\ frame[1].th < MaxScore(scores)

C18_Fixpoint ==
  ThresholdDone => \A key \in TagSet : ~Assignable([X(1) EXCEPT !.th = @ + 1], key)

\* ------------------------------------------------------------------- C19
\* the steps of extract that follow _score, and its return
AfterScore == frame[1].pc \notin {"idle", "score", "raised"}

BestLineHits(idx) ==
  /\ idx = ArgMax(scores["YukoEdYmd"])
  /\ scores["KofuYmd"][idx] > 0
  /\ Len(frame[1].dates_all["YukoEdYmd"][idx]) < 3

\* C20: the fixup that suppresses YukoStYmd changes YukoStYmd's score and
\* candidates only on YukoEdYmd's best-scoring line, and only when KofuYmd
\* scores positive there and fewer than 3 candidates remain there; on every
\* other line it leaves YukoStYmd's score and candidates unchanged.
C20_OnlyBestLine ==
  [][frame[1].pc = "fix4a" =>
       \A idx \in 1..Len(frame[1].page) :
          ~BestLineHits(idx) =>
             /\ scores'["YukoStYmd"][idx] = scores["YukoStYmd"][idx]
             /\ frame'[1].dates_all["YukoStYmd"][idx] = frame[1].dates_all["YukoStYmd"][idx]]_vars

\* ------------------------------------------------------------------- C21
\* the steps of extract that follow the two-date fixup, and its return
AfterFix4b == frame[1].pc \in {"assign", "pair6", "pair7", "fallback", "fill", "done"}

\* the lines the two-date fixup acted on: YukoEdYmd has exactly two
\* candidates, YukoStYmd scores positive and KofuYmd scores zero
TwoDateLines ==
  {idx \in 1..Len(frame[1].page) :
     /\ Len(hist[1].cand0["YukoEdYmd"][idx]) = 2
     /\ scores["YukoStYmd"][idx] > 0
     /\ scores["KofuYmd"][idx] = 0}

\* the two YukoEdYmd candidates of the last such line, by canonical string
TwoDates == StrList(hist[1].cand0["YukoEdYmd"][MaxIn(TwoDateLines)])

\* C21: when a line has exactly two YukoEdYmd candidates, a positive YukoStYmd
\* score and a zero KofuYmd score, the fixup gives YukoStYmd the candidate
\* with the smaller canonical string and YukoEdYmd the one with the larger
\* (the last such line deciding), no later step changes them, and in the map
\* returned YukoStYmd's canonical string is <= YukoEdYmd's.
C21_TwoDatesOrdered ==
  (AfterFix4b /\ TwoDateLines # {}) =>
    /\ Str(Get(info, "YukoStYmd")) = MinOf({TwoDates[1], TwoDates[2]})
    /\ Str(Get(info, "YukoEdYmd")) = MaxIn({TwoDates[1], TwoDates[2]})
    /\ Str(Get(info, "YukoStYmd")) <= Str(Get(info, "YukoEdYmd"))

\* extract has returned after the fixup swapped the two dates of a line, on a
\* Page where two lines with different dates qualified
C21_Witness ==
  /\ frame[1].pc = "done"
  /\ Cardinality(TwoDateLines) = 2
  /\ TwoDates[1] > TwoDates[2]
  /\ StrList(hist[1].cand0["YukoEdYmd"][1]) # StrList(hist[1].cand0["YukoEdYmd"][2])
  /\ Str(info["YukoStYmd"]) < Str(info["YukoEdYmd"])

\* ------------------------------------------------------------------- C22
\* C22: the YukoStYmd/YukoEdYmd pair step assigns only when both keys are
\* unresolved, YukoStYmd's best-scoring line is YukoEdYmd's best-scoring
\* line, and exactly two candidates remain for each on that line.
C22_SameLineOnly ==
  [][(frame[1].pc = "pair6" /\ info' # info) =>
       /\ Get(info, "YukoStYmd") = Null
       /\ Get(info, "YukoEdYmd") = Null
       /\ ArgMax(scores["YukoStYmd"]) = ArgMax(scores["YukoEdYmd"])
       /\ Len(frame[1].dates_all["YukoStYmd"][ArgMax(scores["YukoStYmd"])]) = 2
       /\ Len(frame[1].dates_all["YukoEdYmd"][ArgMax(scores["YukoEdYmd"])]) = 2]_vars

\* ------------------------------------------------------------------- C23
\* the line the YukoEdYmd/KofuYmd pair step is at qualifies: KofuYmd scores
\* positive, and YukoEdYmd and KofuYmd have exactly two candidates each
AtPairLine == frame[1].pc = "pair7" /\ Pair7Hits(X(1), frame[1].i)

\* KofuYmd's two candidates on the line the step is at, by canonical string
KofuPair == StrList(frame[1].dates_all["KofuYmd"][frame[1].i])

\* C23: the pair step runs when YukoEdYmd and KofuYmd are both unresolved;
\* on a line where KofuYmd scores positive and exactly two YukoEdYmd and two
\* KofuYmd candidates remain it assigns both roles from that line, KofuYmd
\* the smaller canonical string and YukoEdYmd the larger, and in the map
\* returned KofuYmd's canonical string is <= YukoEdYmd's.
C23_PairOrdered ==
  /\ [][AtPairLine =>
          /\ Str(Get(info', "KofuYmd")) = MinOf({KofuPair[1], KofuPair[2]})
          /\ Str(Get(info', "YukoEdYmd")) = MaxIn({KofuPair[1], KofuPair[2]})]_vars
  /\ []((frame[1].pc \in {"fallback", "fill", "done"} /\ hist[1].by["KofuYmd"] = "pair7") =>
          /\ hist[1].by["YukoEdYmd"] = "pair7"
          /\ Str(Get(info, "KofuYmd")) <= Str(Get(info, "YukoEdYmd")))

\* extract has returned after the pair step swapped the two dates of a line
C23_Witness ==
  /\ frame[1].pc = "done"
  /\ hist[1].by["KofuYmd"] = "pair7"
  /\ hist[1].by["YukoEdYmd"] = "pair7"
  /\ Str(info["KofuYmd"]) = 20180401
  /\ Str(info["YukoEdYmd"]) = 20200102

\* ------------------------------------------------------------------- C24
\* the key the fallback is at, its candidates on line idx, and the lines on
\* which it still has a candidate
FallbackKey == Tags[frame[1].ki]
Remaining(idx) == frame[1].dates_all[FallbackKey][idx]
Stocked == {idx \in 1..Len(frame[1].page) : Remaining(idx) # <<>>}

\* the first stocked line in descending score order, ties in line order
FirstStocked ==
  CHOOSE idx \in Stocked :
    \A j \in Stocked :
      \/ scores[FallbackKey][j] < scores[FallbackKey][idx]
      \/ scores[FallbackKey][j] = scores[FallbackKey][idx] /\ idx <= j

\* C24: in the fallback a role still unresolved takes its value from the first
\* line, in descending score order with ties in line order, that has a
\* remaining candidate: Birthday the candidate with the smallest canonical
\* string on that line, every other role the first remaining candidate; when
\* no line has a candidate the role stays null.
C24_Fallback ==
  [][(frame[1].pc = "fallback" /\ Get(info, FallbackKey) = Null) =>
       IF Stocked = {}
       THEN Get(info', FallbackKey) = Null
       ELSE /\ InList(Get(info', FallbackKey), Remaining(FirstStocked))
            /\ FallbackKey = "Birthday" =>
                 Str(Get(info', FallbackKey)) = MinOf(StrSet(Remaining(FirstStocked)))
            /\ FallbackKey # "Birthday" =>
                 Get(info', FallbackKey) = Remaining(FirstStocked)[1]]_vars

\* the fallback gave Birthday the earlier of two dates of the first of two
\* lines that tie, the later date coming first in extraction order
C24_Witness ==
  /\ frame[1].pc = "done"
  /\ Len(frame[1].page) = 2
  /\ scores["Birthday"][1] = scores["Birthday"][2]
  /\ hist[1].by["Birthday"] = "fallback"
  /\ StrList(hist[1].cand0["Birthday"][1]) = <<20190102, 20180401>>
  /\ info["Birthday"].src = <<"Birthday", 1, 2>>

\* ------------------------------------------------------------------- C25
\* the suppression pass is at a line on which two or more roles score >= 2
AtTiedLine == frame[1].pc = "nms" /\ Len(Claimants(X(1), frame[1].i)) >= 2

AtClaimedLine == frame[1].pc = "nms" /\ Len(Claimants(X(1), frame[1].i)) = 1

AssignKey == Tags[frame[1].ki]
AssignLine == ArgMax(scores[AssignKey])
Assigning == frame[1].pc = "assign" /\ info' # info

\* C26: in the threshold assignment a role is assigned only when it is
\* unresolved, its maximum score is >= the threshold, exactly one line attains
\* it and exactly one candidate remains for the role on that line; right after
\* the assignment no other role holds, on that line, a candidate with the
\* assigned canonical string, and the lists on all other lines are unchanged.
C26_AssignAndPop ==
  [][Assigning =>
       /\ Get(info, AssignKey) = Null
       /\ MaxOf(scores[AssignKey]) >= frame[1].th
       /\ Cardinality({j \in 1..Len(frame[1].page) :
                         scores[AssignKey][j] = MaxOf(scores[AssignKey])}) = 1
       /\ Len(frame[1].dates_all[AssignKey][AssignLine]) = 1
       /\ Get(info', AssignKey) = frame[1].dates_all[AssignKey][AssignLine][1]
       /\ \A g \in TagSet \ {AssignKey} :
            Str(Get(info', AssignKey)) \notin StrSet(frame'[1].dates_all[g][AssignLine])
       /\ \A g \in TagSet : \A j \in 1..Len(frame[1].page) :
            j # AssignLine => frame'[1].dates_all[g][j] = frame[1].dates_all[g][j]]_vars

\* an assignment has removed the assigned date from another role's list on
\* the same line, and that role keeps another candidate there
C26_Witness ==
  /\ frame[1].pc \in {"assign", "pair6"}
  /\ \E g \in TagSet : \E h \in TagSet \ {g} : \E j \in 1..Len(frame[1].page) :
       /\ hist[1].by[g] = "assign"
       /\ Get(info, g) \in {hist[1].cand0[g][j][k] : k \in 1..Len(hist[1].cand0[g][j])}
       /\ Str(info[g]) \in StrSet(hist[1].cand0[h][j])
       /\ Str(info[g]) \notin StrSet(frame[1].dates_all[h][j])
       /\ frame[1].dates_all[h][j] # <<>>

\* ------------------------------------------------------------------- C28
\* the line a Date object was extracted from
LineOf(d) == d.src[2]

\* C28: in the map extract returns no two roles hold values that were taken
\* from the same line and have the same canonical string.
C28_NoSharedDate ==
  frame[1].pc = "done" =>
    \A g \in TagSet : \A h \in TagSet \ {g} :
      (Get(info, g) # Null /\ Get(info, h) # Null) =>
        ~(LineOf(info[g]) = LineOf(info[h]) /\ Str(info[g]) = Str(info[h]))

\* ------------------------------------------------------------------- C29
\* the roles whose score, as _score computed it, is 0 on every line
Unscored == {g \in TagSet : \A j \in 1..Len(frame[1].page) : score_tag(g, frame[1].page).scores[j] = 0}

\* C29: a role whose computed score is 0 on every line of the Page resolves
\* to null: no step of extract gives it a value.
C29_UnscoredIsNull ==
  frame[1].pc \notin {"idle", "score", "raised"} =>
    \A g \in Unscored : Get(info, g) = Null

\* extract has returned: YukoStYmd scored on no line and is null, on a Page
\* on which the pair step gave YukoEdYmd and KofuYmd the dates of a line
C29_Witness ==
  /\ frame[1].pc = "done"
  /\ "YukoStYmd" \in Unscored
  /\ Get(info, "YukoStYmd") = Null
  /\ hist[1].by["YukoEdYmd"] = "pair7"
  /\ hist[1].by["KofuYmd"] = "pair7"

\* ------------------------------------------------------------------- C30
\* the lines, among the first five, that match both the insurer matcher and
\* the recipient-number matcher and are followed by a line of digits only
CombinedLines ==
  {idx \in 1..Min2(5, Len(analyzer.page)) :
     /\ insurer_match(analyzer.page[idx]).hit # 0
     /\ kohi_num_match(analyzer.page[idx]).hit # 0
     /\ idx + 1 <= Len(analyzer.page)
     /\ isdigit(analyzer.page[idx + 1])}

\* the combined-number fallback of KouhiAnalyzer fires
CombinedFires ==
  /\ analyzer.pc = "handle_nums"
  /\ AGet(analyzer.info, "HknjaNum") = VNone \/ AGet(analyzer.info, "Num") = VNone
  /\ CombinedLines # {}

\* C30: when the combined-number fallback fires, get("HknjaNum") afterwards
\* returns the first 8 characters of the line that follows the matching line
\* and get("Num") returns the remaining characters.
C30_CombinedNumbers ==
  [][CombinedFires =>
       \E idx \in CombinedLines :
          /\ AGet(analyzer'.info, "HknjaNum")
               = VStr(SubSeq(analyzer.page[idx + 1], 1, Min2(8, Len(analyzer.page[idx + 1]))))
          /\ AGet(analyzer'.info, "Num")
               = VStr(SubSeq(analyzer.page[idx + 1], 9, Len(analyzer.page[idx + 1])))]_vars

====
